---- MODULE Spec2Model ----
(***************************************************************************)
(* Gitstats: the GitHub profile-card statistics endpoint                   *)
(* GET /api/githubuser/{username}?exclude_repo=a,b                         *)
(*                                                                         *)
(* The repository holds several drafts of the same request handler.  Each  *)
(* draft is modelled as one "variant" of the request state machine:        *)
(*   "monolith"  graphql.ts GET + getUserStats + getAllTimeCommitCount      *)
(*   "timeline"  part_001 GET + data-featcher.ts + commit-counter.ts       *)
(*   "comprehensive" part_001 GET + data-featcher.ts + part_009            *)
(*   "search"    route.ts GET + getTotalCommitsCount                       *)
(*   "rest"      part_000 GET (REST only)                                  *)
(***************************************************************************)
EXTENDS Integers, Sequences, FiniteSets, TLC

VARIABLES
  variant,       \* which draft of the handler serves the request
  hostile,       \* TRUE: upstream sub-queries may also answer negative numbers
  currentYear,   \* new Date().getFullYear()
  isAuth,        \* session cookie login === username
  envToken,      \* process.env.GITHUB_TOKEN is set
  excludeParam,  \* the exclude_repo query parameter: None or Some(<<segments>>)
  pc,            \* position of the GET handler
  rest,          \* REST profile fetch: "idle", "inflight", "ok", "non2xx", "rejected"
  restStatus,    \* HTTP status of the REST profile response
  spc,           \* position of getUserStats
  attempt,       \* retryApiCall loop index i
  joinErr,       \* first rejection seen by Promise.all: None or Some(error)
  userData,      \* snapshot held by getUserStats: None or Some(user)
  totalStars,    \* stars summed by getUserStats
  est,           \* commit estimator run
  statsResult,   \* value getUserStats resolved with: None or Some(record)
  lpc,           \* position of the concurrent languages branch (route.ts)
  topLanguages,  \* result of the language aggregation
  rateRemaining, \* rateLimitManager.remaining (part_009, module scope)
  response,      \* the HTTP response: NoResponse or [status, body]
  snap,          \* the snapshot queries of the request and what getUserStats made of the answer
  retry,         \* retryApiCall on its own: the invocations made and the delays waited
  ownRemaining,  \* the rateLimit.remaining this request itself received last
  batch,         \* the repository loop of a strategy on its own: queries in flight, delays waited
  username,      \* the [username] segment of the request path
  session,       \* the session cookie of the request, what GET made of it, and the tokens sent out
  authRoute,     \* a request to /api/auth/github or /api/auth/session: its query, cookies, calls and answer
  analysis       \* the breakdown of processRepositoryCommits, stats.commitsAnalyzed, and the commit of the latest categorizeCommit call

vars == <<variant, hostile, currentYear, isAuth, envToken, excludeParam, pc, rest,
          restStatus, spc, attempt, joinErr, userData, totalStars, est,
          statsResult, lpc, topLanguages, rateRemaining, response, snap, retry, ownRemaining, batch, username, session, authRoute, analysis>>

-----------------------------------------------------------------------------
(* JavaScript values                                                       *)

\* undefined / null / a property that is absent
None == <<>>

Some(v) == <<v>>

\* JS truthiness of an optional number: undefined, null and 0 are falsy
Truthy(o) == o # None /\ o[1] # 0

\* `x || 0`
OrZero(o) == IF Truthy(o) THEN o[1] ELSE 0

Max(a, b) == IF a >= b THEN a ELSE b

Min(a, b) == IF a <= b THEN a ELSE b

\* String.prototype.includes
Includes(s, sub) ==
  \E i \in 1..(Len(s) - Len(sub) + 1) : SubSeq(s, i, i + Len(sub) - 1) = sub

RECURSIVE SumSeq(_)
\* Array.prototype.reduce((sum, x) => sum + x, 0)
SumSeq(s) == IF s = <<>> THEN 0 ELSE s[1] + SumSeq(Tail(s))

RECURSIVE SumOver(_, _)
\* the sum of f over a finite set of indices
SumOver(S, f) ==
  IF S = {} THEN 0
  ELSE LET x == CHOOSE y \in S : TRUE IN f[x] + SumOver(S \ {x}, f)

\* Array.prototype.slice(0, n)
Take(s, n) == SubSeq(s, 1, Min(n, Len(s)))

-----------------------------------------------------------------------------
(* Errors                                                                  *)

USER_NOT_FOUND == "USER_NOT_FOUND"

GRAPHQL_ERROR == "GRAPHQL_ERROR"

\* new CustomApiError(message, code)
CustomApiError(message, code) ==
  [cls |-> "CustomApiError", code |-> code, message |-> message]

\* new Error(message): no `code` property
PlainError(message) == [cls |-> "Error", code |-> "", message |-> message]

\* what fetch() rejects with on a transport failure
FetchFailed == PlainError("fetch failed")

RECURSIVE Pad(_)
\* " ".repeat(indent)
Pad(n) == IF n <= 0 THEN "" ELSE " " \o Pad(n - 1)

RECURSIVE SplitAt(_, _)
\* text.split(" ") from position i on: the words between single spaces
\* (empty words included)
SplitAt(s, i) ==
  LET spaces == {k \in i..Len(s) : SubSeq(s, k, k) = " "}
  IN IF spaces = {} THEN <<SubSeq(s, i, Len(s))>>
     ELSE LET next == CHOOSE k \in spaces : \A j \in spaces : k <= j
          IN <<SubSeq(s, i, next - 1)>> \o SplitAt(s, next + 1)

Split(s) == SplitAt(s, 1)

RECURSIVE IsBlank(_)
\* !line.trim()
IsBlank(s) == s = "" \/ (SubSeq(s, 1, 1) = " " /\ IsBlank(SubSeq(s, 2, Len(s))))

RECURSIVE WrapLoop(_, _, _, _, _)
WrapLoop(words, k, cur, lines, cfg) ==
  IF k > Len(words)
  THEN IF IsBlank(cur) THEN lines ELSE Append(lines, cur)
  ELSE LET word == words[k] IN
       IF Len(cur) + Len(word) + 1 <= cfg.width
       THEN WrapLoop(words, k + 1,
                     cur \o (IF IsBlank(cur) THEN "" ELSE " ") \o word, lines, cfg)
       ELSE WrapLoop(words, k + 1, cfg.pad \o word, Append(lines, cur), cfg)

wrapTextInLines(text, width, indent) ==
  WrapLoop(Split(text), 1, Pad(indent), <<>>, [width |-> width, pad |-> Pad(indent)])

WrapWidth == 90

\* wrapTextInLines(message, 90, 1)[0]; [0] of an empty array is undefined
FirstWrappedLine(message) ==
  LET lines == wrapTextInLines(message, WrapWidth, 1)
  IN IF lines = <<>> THEN "undefined" ELSE lines[1]

-----------------------------------------------------------------------------
(* The error translators (the catch block of each GET)                     *)

RateLimitAdvice == "Consider logging in with GitHub for higher rate limits"

ErrorResponse(status, message, suggestion) ==
  [status |-> status, body |-> [error |-> message, suggestion |-> suggestion]]

\* graphql.ts GET, catch block (route.ts GET has the same text)
TranslateMonolith(error) ==
  LET r == IF error.cls = "CustomApiError"
           THEN IF error.code = USER_NOT_FOUND THEN <<404, "User not found">>
                ELSE IF error.code = GRAPHQL_ERROR THEN <<500, "GraphQL API error">>
                ELSE <<500, error.message>>
           ELSE IF Includes(error.message, "User not found")
                THEN <<404, "User not found">>
                ELSE IF Includes(error.message, "rate limit")
                THEN <<429, "Rate limit exceeded. Please try again later or login for higher limits.">>
                ELSE <<500, error.message>>
  IN ErrorResponse(r[1], r[2], IF r[1] = 429 THEN Some(RateLimitAdvice) ELSE None)

\* part_001 GET, catch block: the body carries no suggestion key at all
TranslateModular(error) ==
  LET r == IF error.cls = "CustomApiError"
           THEN IF error.code = USER_NOT_FOUND THEN <<404, "User not found">>
                ELSE IF error.code = GRAPHQL_ERROR THEN <<500, "GraphQL API error">>
                ELSE <<500, error.message>>
           ELSE IF Includes(error.message, "User not found")
                THEN <<404, "User not found">>
                ELSE IF Includes(error.message, "rate limit")
                THEN <<429, "Rate limit exceeded. Please try again later.">>
                ELSE <<500, error.message>>
  IN ErrorResponse(r[1], r[2], None)

\* part_000 GET, catch block: only the `instanceof Error` branch exists
TranslateRest(error) ==
  LET r == IF Includes(error.message, "User not found")
           THEN <<404, "User not found">>
           ELSE IF Includes(error.message, "rate limit")
           THEN <<429, "Rate limit exceeded. Please try again later or login for higher limits.">>
           ELSE <<500, error.message>>
  IN ErrorResponse(r[1], r[2], IF r[1] = 429 THEN Some(RateLimitAdvice) ELSE None)

Translate(v, error) ==
  CASE v \in {"monolith", "search"} -> TranslateMonolith(error)
    [] v \in {"timeline", "comprehensive"} -> TranslateModular(error)
    [] OTHER -> TranslateRest(error)

\* errors a catch block can be handed
ErrorPool ==
  LET messages == { "fetch failed", "User not found: 404",
                    "API rate limit exceeded for user ID 1.",
                    "No user data returned from GitHub API", "User data not found" }
  IN {CustomApiError(m, c) : m \in messages,
                             c \in {USER_NOT_FOUND, GRAPHQL_ERROR, "OK", "Forbidden"}}
       \cup {PlainError(m) : m \in messages}

-----------------------------------------------------------------------------
(* Star and language aggregation                                           *)

\* requestUrl.searchParams.get("exclude_repo")?.split(",").filter(Boolean) || []
ParseExclude(param) ==
  IF param = None THEN <<>> ELSE SelectSeq(param[1], LAMBDA seg : seg # "")

\* new Set(excludeRepos) / hiddenReposMap
NameSet(names) == {names[i] : i \in 1..Len(names)}

\* no repository is filtered out
FilterNothing(nodes, excludeRepos) == nodes

\* the filter also drops the first repository of the list it is given
FilterHiddenAndFirst(nodes, excludeRepos) ==
  SelectSeq(nodes, LAMBDA repo : repo.name \notin NameSet(excludeRepos) /\ repo # nodes[1])

\* .filter((repo) => !hiddenRepos.has(repo.name))
FilterHidden(nodes, excludeRepos) ==
  SelectSeq(nodes, LAMBDA repo : repo.name \notin NameSet(excludeRepos))

\* the properties every object literal inherits from Object.prototype; each of
\* them reads as a truthy value (a function, or the prototype itself)
ObjectPrototypeKeys ==
  {"constructor", "toString", "toLocaleString", "valueOf", "hasOwnProperty",
   "isPrototypeOf", "propertyIsEnumerable", "__proto__", "__defineGetter__",
   "__defineSetter__", "__lookupGetter__", "__lookupSetter__"}

\* hiddenReposMap[repo.name] of the object literal filled by
\* excludeRepos.forEach(repoName => { hiddenReposMap[repoName] = true })
HiddenReposMapLookup(excludeRepos, name) ==
  name \in NameSet(excludeRepos) \/ name \in ObjectPrototypeKeys

\* .filter((repo) => !hiddenReposMap[repo.name])
FilterHiddenMap(nodes, excludeRepos) ==
  SelectSeq(nodes, LAMBDA repo : ~HiddenReposMapLookup(excludeRepos, repo.name))

\* .reduce((total, current) => total + current.stargazers.totalCount, 0)
TotalStars(nodes, excludeRepos) ==
  SumSeq([i \in 1..Len(FilterHidden(nodes, excludeRepos)) |->
            FilterHidden(nodes, excludeRepos)[i].stars])

RECURSIVE InsertDesc(_, _)
\* place x behind every element whose key is >= its own (a stable sort step)
InsertDesc(x, sorted) ==
  IF sorted = <<>> THEN <<x>>
  ELSE IF sorted[1].key >= x.key
       THEN <<sorted[1]>> \o InsertDesc(x, Tail(sorted))
       ELSE <<x>> \o sorted

RECURSIVE SortFrom(_, _, _)
SortFrom(s, k, acc) ==
  IF k > Len(s) THEN acc ELSE SortFrom(s, k + 1, InsertDesc(s[k], acc))

\* Array.prototype.sort((a, b) => key(b) - key(a)): stable, descending
SortDesc(s, Key(_)) ==
  LET keyed == [i \in 1..Len(s) |-> [key |-> Key(s[i]), item |-> s[i]]]
      sorted == SortFrom(keyed, 1, <<>>)
  IN [i \in 1..Len(sorted) |-> sorted[i].item]

\* all language edges of the repositories, in walking order
RECURSIVE AllEdges(_)
AllEdges(nodes) ==
  IF nodes = <<>> THEN <<>> ELSE nodes[1].langs \o AllEdges(Tail(nodes))

RECURSIVE Accumulate(_, _)
\* languageMap after the two forEach loops, as Object.values lists it:
\* one entry per language name, in order of first insertion
Accumulate(edges, map) ==
  IF edges = <<>> THEN map
  ELSE LET e == edges[1]
           hit == {i \in 1..Len(map) : map[i].name = e.name}
       IN IF hit # {}
          THEN Accumulate(Tail(edges),
                 [i \in 1..Len(map) |->
                    IF i \in hit
                    THEN [map[i] EXCEPT !.size = @ + e.size, !.count = @ + 1]
                    ELSE map[i]])
          ELSE Accumulate(Tail(edges),
                 Append(map, [name |-> e.name, size |-> e.size, count |-> 1]))

TopLanguageCount == 5

\* the walk in the order of the snapshot, without the sort by stars
LanguageReposInSnapshotOrder(nodes, excludeRepos) == FilterHiddenMap(nodes, excludeRepos)

\* the repositories the language aggregation walks: hidden ones removed, by stars
LanguageRepos(nodes, excludeRepos) ==
  SortDesc(FilterHiddenMap(nodes, excludeRepos), LAMBDA repo : repo.stars)

\* Object.values(languageMap)
LanguageMap(nodes, excludeRepos) ==
  Accumulate(AllEdges(LanguageRepos(nodes, excludeRepos)), <<>>)

\* the first five languages of the map, without the sort by size
getUserTopLanguagesUnsorted(nodes, excludeRepos) ==
  LET ranked == Take(LanguageMap(nodes, excludeRepos), TopLanguageCount)
  IN [i \in 1..Len(ranked) |-> "#" \o ranked[i].name]

\* getUserTopLanguages(userData, excludeRepos)
getUserTopLanguages(nodes, excludeRepos) ==
  LET ranked == Take(SortDesc(LanguageMap(nodes, excludeRepos), LAMBDA l : l.size),
                     TopLanguageCount)
  IN [i \in 1..Len(ranked) |-> "#" \o ranked[i].name]

\* .sort applied to userData.repositories.nodes itself
SnapshotSortedInPlace(nodes, excludeRepos) == SortDesc(nodes, LAMBDA repo : repo.stars)

\* userData.repositories.nodes after getUserTopLanguages: .filter returns a new
\* array, and it is that array .sort reorders
SnapshotAfterLanguages(nodes, excludeRepos) == nodes

-----------------------------------------------------------------------------
(* Upstream data                                                           *)

Lang(name, size) == [name |-> name, size |-> size]

Repo(name, stars, langs) ==
  [name |-> name, stars |-> stars, langs |-> langs,
   isPrivate |-> FALSE, isFork |-> FALSE, isArchived |-> FALSE]

\* language edges of one repository, as languages(first: 10, orderBy SIZE DESC) lists them
EdgeLists ==
  { <<>>,
    <<Lang("TypeScript", 300), Lang("JavaScript", 200), Lang("CSS", 100)>>,
    <<Lang("Rust", 5000), Lang("Go", 200), Lang("Python", 100)>>,
    <<Lang("Go", 300), Lang("TypeScript", 100)>> }

RepoNames == {"alpha", "beta", "secret-repo", "constructor"}

StarCounts == {1, 100}

RepoPool ==
  {Repo(n, st, ls) : n \in RepoNames, st \in StarCounts, ls \in EdgeLists}

MaxRepos == 2

\* repositories.nodes of a snapshot: up to MaxRepos repositories, in any order
NodeLists == UNION {[1..n -> RepoPool] : n \in 0..MaxRepos}

\* values of the exclude_repo query parameter (absent, or its comma-separated segments)
ExcludeParams ==
  { None, Some(<<"secret-repo">>), Some(<<"alpha", "", "beta">>),
    Some(<<"no-such-repo">>), Some(<<"secret-repo", "no-such-repo">>) }

-----------------------------------------------------------------------------
(* Aggregation on its own: the two pure functions of data-featcher.ts      *)
(* applied to every snapshot and exclude list of the bounded input space   *)

NoResponse == [status |-> 0, body |-> None]

\* RateLimitManager.remaining before any response has updated it
RateLimitInitial == 5000

\* the languages branch of route.ts before it starts
IdleBranch == [st |-> "idle", attempt |-> 0]

\* no repository loop entered
IdleBatch ==
  [phase |-> "idle", n |-> 0, i |-> 0, inFlight |-> {}, settled |-> {},
   dispatched |-> 0, delays |-> <<>>, checks |-> <<>>, hits |-> 0, processed |-> 0]

\* retryApiCall not entered
\* no request to the auth routes
IdleAuthRoute ==
  [route |-> "none", configured |-> TRUE,
   query |-> [code |-> <<>>, error |-> <<>>, state |-> <<>>],
   jar |-> [oauth_state |-> <<>>, github_user |-> <<>>],
   calls |-> {}, out |-> [oauth_state |-> "untouched", github_user |-> "untouched"],
   answer |-> <<>>, now |-> 0, settled |-> <<>>]

\* the counters of the breakdown (part_009 290-300)
CounterNames ==
  {"directCommits", "mergeCommits", "squashMergeCommits", "revertCommits",
   "webInterfaceCommits", "repositoryCreationCommits", "coAuthoredCommits",
   "importedCommits", "mirrorCommits"}

\* const breakdown = { directCommits: 0, ... }, before any commit is analyzed
IdleAnalysis ==
  [breakdown |-> [c \in CounterNames |-> 0], commitsAnalyzed |-> 0, commit |-> <<>>]

\* no cookie looked at yet
IdleSession == [cookie |-> [kind |-> "absent", login |-> <<>>, access_token |-> <<>>],
                user |-> <<>>, githubToken |-> <<>>, sent |-> {}]

IdleRetry == [maxRetries |-> 0, calls |-> <<>>, delays |-> <<>>, outcome |-> None]

\* no snapshot query issued yet
InitialSnap ==
  [issued |-> 0, filtered |-> FALSE, kind |-> "none", message |-> "",
   statusText |-> "", thrown |-> None, langNodes |-> None]

IdleEstimator ==
  [phase |-> "idle", log |-> <<>>, repos |-> <<>>, years |-> <<>>, sum |-> 0,
   idx |-> 0, ok |-> 0, bad |-> 0, best |-> "", order |-> <<>>]

InitAgg ==
  /\ variant = "timeline"
  /\ hostile = FALSE
  /\ currentYear = 2025
  /\ isAuth = FALSE
  /\ envToken = TRUE
  /\ excludeParam \in ExcludeParams
  /\ pc = "aggregate"
  /\ rest = "idle"
  /\ restStatus = 0
  /\ spc = "idle"
  /\ attempt = 0
  /\ joinErr = None
  /\ \E nodes \in NodeLists : userData = Some([nodes |-> nodes])
  /\ totalStars = None
  /\ est = IdleEstimator
  /\ statsResult = None
  /\ lpc = IdleBranch
  /\ topLanguages = None
  /\ rateRemaining = RateLimitInitial
  /\ response = NoResponse
  /\ analysis = IdleAnalysis
  /\ authRoute = IdleAuthRoute
  /\ session = IdleSession
  /\ username = "octocat"
  /\ batch = IdleBatch
  /\ ownRemaining = RateLimitInitial
  /\ retry = IdleRetry
  /\ snap = InitialSnap

\* data-featcher.ts getUserStats: the star total over the non-hidden repositories
AggStars ==
  /\ pc = "aggregate"
  /\ totalStars = None
  /\ totalStars' = Some(TotalStars(userData[1].nodes, ParseExclude(excludeParam)))
  /\ UNCHANGED <<rateRemaining, variant, hostile, currentYear, isAuth, envToken, excludeParam, pc,
                 rest, restStatus, spc, attempt, joinErr, userData, est,
                 statsResult, lpc, topLanguages, response, snap, retry, ownRemaining, batch, username, session, authRoute, analysis>>

\* data-featcher.ts getUserTopLanguages
AggLanguages ==
  /\ pc = "aggregate"
  /\ topLanguages = None
  /\ topLanguages' =
       Some(getUserTopLanguages(userData[1].nodes, ParseExclude(excludeParam)))
  /\ userData' = Some([userData[1] EXCEPT !.nodes =
                         SnapshotAfterLanguages(@, ParseExclude(excludeParam))])
  /\ UNCHANGED <<rateRemaining, variant, hostile, currentYear, isAuth, envToken, excludeParam, pc,
                 rest, restStatus, spc, attempt, joinErr, totalStars, est,
                 statsResult, lpc, response, snap, retry, ownRemaining, batch, username, session, authRoute, analysis>>

NextAgg == AggStars \/ AggLanguages

SpecAgg == InitAgg /\ [][NextAgg]_vars

-----------------------------------------------------------------------------
(* The catch block of each GET on its own                                  *)

InitTranslate ==
  /\ variant \in {"monolith", "timeline", "comprehensive", "search", "rest"}
  /\ hostile = FALSE
  /\ currentYear = 2025
  /\ isAuth = FALSE
  /\ envToken = TRUE
  /\ excludeParam = None
  /\ pc = "catch"
  /\ rest = "idle"
  /\ restStatus = 0
  /\ spc = "idle"
  /\ attempt = 0
  /\ joinErr \in {Some(e) : e \in IF variant = "rest"
                                   THEN {e \in ErrorPool : e.cls = "Error"}
                                   ELSE ErrorPool}
  /\ userData = None
  /\ totalStars = None
  /\ est = IdleEstimator
  /\ statsResult = None
  /\ lpc = IdleBranch
  /\ topLanguages = None
  /\ rateRemaining = RateLimitInitial
  /\ response = NoResponse
  /\ analysis = IdleAnalysis
  /\ authRoute = IdleAuthRoute
  /\ session = IdleSession
  /\ username = "octocat"
  /\ batch = IdleBatch
  /\ ownRemaining = RateLimitInitial
  /\ retry = IdleRetry
  /\ snap = InitialSnap

\* catch (error) { ... return NextResponse.json({error, suggestion}, {status}) }
CatchBlock ==
  /\ pc = "catch"
  /\ response' = Translate(variant, joinErr[1])
  /\ pc' = "done"
  /\ UNCHANGED <<rateRemaining, variant, hostile, currentYear, isAuth, envToken,
                 excludeParam, rest, restStatus, spc, attempt, joinErr, userData,
                 totalStars, est, statsResult, lpc, topLanguages, snap, retry, ownRemaining, batch, username, session, authRoute, analysis>>

NextTranslate == CatchBlock

SpecTranslate == InitTranslate /\ [][NextTranslate]_vars

-----------------------------------------------------------------------------
(* The request: inputs                                                     *)

Variants == {"monolith", "timeline", "comprehensive", "search", "rest"}

\* logins a request can name; route.ts derives the search tag from the query
\* text, which holds the login
Usernames(v) == IF v = "search" THEN {"octocat", "THOR"} ELSE {"octocat"}

\* part_001 GET and data-featcher.ts
Modular(v) == v \in {"timeline", "comprehensive"}

MaxAge == 1

RepoAlpha ==
  Repo("alpha", 3, <<Lang("TypeScript", 300), Lang("CSS", 20)>>)

RepoSecret == Repo("secret-repo", 100, <<Lang("Rust", 5000)>>)

RepoFork ==
  [Repo("forked", 1, <<Lang("Go", 50)>>) EXCEPT !.isFork = TRUE]

\* repositories.nodes of the snapshots the request can receive
SnapshotNodes == {<<>>, <<RepoAlpha, RepoSecret, RepoFork>>}

\* pullRequests, closedIssues and this year's totalCommitContributions of a
\* quiet and of an active account
Activity == {<<0, 0, 0>>, <<2, 4, 2>>}

\* data.user of the snapshot query
Users(now) ==
  { [nodes |-> n, reposTotalCount |-> Len(n), pullRequests |-> a[1],
     openIssues |-> 1, closedIssues |-> a[2], yearCommits |-> a[3],
     createdYear |-> cy] :
      n \in SnapshotNodes, a \in Activity, cy \in (now - MaxAge)..now }

\* numbers a sub-query can answer with
CountVals(h) == IF h THEN {0 - 5, 0, 2, 40} ELSE {0, 2, 40}

\* a numeric field of a sub-query response: absent, or one of the numbers
OptVals(h) == {None} \cup {Some(n) : n \in CountVals(h)}

\* totalCommitContributions of one year in the year-by-year loops
YearVals(h) == IF h THEN {Some(0 - 5), Some(0), Some(2)} ELSE {Some(0), Some(2)}

\* messages of errors[0] in a GraphQL response
GraphQLMessages ==
  { "", "Could not resolve to a User with the login of 'ghost'.",
    "API rate limit exceeded for user ID 1.",
    "Something went wrong while executing your query. Please include A1B2:C3D4:E5F6 when reporting this issue." }

\* the token the handler sends upstream exists
HasToken == IF variant \in {"monolith", "search", "rest"} /\ isAuth THEN TRUE ELSE envToken

\* isAuthenticated as getUserStats receives it.  part_001 calls
\* getUserStats(username, githubToken, repositoriesToExclude): the exclude
\* array lands in the isAuthenticated parameter (an array is truthy) and
\* excludeRepos keeps its default [].
StatsIsAuthenticated == IF Modular(variant) THEN TRUE ELSE isAuth

\* excludeRepos as getUserStats receives it
StatsExcludeRepos == IF Modular(variant) THEN <<>> ELSE ParseExclude(excludeParam)

ScopeWord(auth) == IF auth THEN "authenticated" ELSE "public"

\* retryApiCall's default maxRetries
MaxRetriesUtils == 2

MaxRetriesRoute == 3

MaxRetries(v) == IF v = "search" THEN MaxRetriesRoute ELSE MaxRetriesUtils

Init ==
  /\ variant \in Variants
  /\ hostile = FALSE
  /\ currentYear = 2025
  /\ isAuth \in (IF Modular(variant) THEN {FALSE} ELSE BOOLEAN)
  /\ envToken \in BOOLEAN
  /\ excludeParam \in {None, Some(<<"secret-repo">>)}
  /\ pc = "start"
  /\ rest = "idle"
  /\ restStatus = 0
  /\ spc = "idle"
  /\ attempt = 0
  /\ joinErr = None
  /\ userData = None
  /\ totalStars = None
  /\ est = IdleEstimator
  /\ statsResult = None
  /\ lpc = IdleBranch
  /\ topLanguages = None
  /\ rateRemaining = RateLimitInitial
  /\ response = NoResponse
  /\ analysis = IdleAnalysis
  /\ authRoute = IdleAuthRoute
  /\ session = IdleSession
  /\ username \in Usernames(variant)
  /\ batch = IdleBatch
  /\ ownRemaining = RateLimitInitial
  /\ retry = IdleRetry
  /\ snap = InitialSnap

\* the same request, with upstream sub-queries that may answer negative numbers
InitAdversarial ==
  /\ variant \in Variants
  /\ hostile = TRUE
  /\ currentYear = 2025
  /\ isAuth \in (IF Modular(variant) THEN {FALSE} ELSE BOOLEAN)
  /\ envToken \in BOOLEAN
  /\ excludeParam \in {None, Some(<<"secret-repo">>)}
  /\ pc = "start"
  /\ rest = "idle"
  /\ restStatus = 0
  /\ spc = "idle"
  /\ attempt = 0
  /\ joinErr = None
  /\ userData = None
  /\ totalStars = None
  /\ est = IdleEstimator
  /\ statsResult = None
  /\ lpc = IdleBranch
  /\ topLanguages = None
  /\ rateRemaining = RateLimitInitial
  /\ response = NoResponse
  /\ analysis = IdleAnalysis
  /\ authRoute = IdleAuthRoute
  /\ session = IdleSession
  /\ username \in Usernames(variant)
  /\ batch = IdleBatch
  /\ ownRemaining = RateLimitInitial
  /\ retry = IdleRetry
  /\ snap = InitialSnap

inputVars == <<variant, hostile, currentYear, isAuth, envToken, excludeParam>>

-----------------------------------------------------------------------------
(* The commit estimator run                                                *)

\* one entry of the estimator's history: a strategy started, or finished with
\* kind "positive" (count > 0), "nonpositive" or "failed"
Ev(strategy, kind, count) == [strategy |-> strategy, kind |-> kind, count |-> count]

Started(strategy) == Ev(strategy, "start", 0)

Finished(strategy, count) ==
  Ev(strategy, IF count > 0 THEN "positive" ELSE "nonpositive", count)

Failed(strategy) == Ev(strategy, "failed", 0)

PendingRepo == [st |-> "pending", v |-> 0]

\* repositories.nodes.filter((repo) => !repo.isFork && !repo.isArchived)
Eligible(nodes) == SelectSeq(nodes, LAMBDA repo : ~repo.isFork /\ ~repo.isArchived)

EstRun(phase, log) ==
  [phase |-> phase, log |-> log, repos |-> <<>>, years |-> <<>>, sum |-> 0,
   idx |-> 0, ok |-> 0, bad |-> 0, best |-> "", order |-> <<>>]

\* what getUserStats resolves with
StatsValue(count, method, u, stars) ==
  [totalCommits |-> count, commitMethod |-> method, totalStars |-> stars, totalPRs |-> u.pullRequests,
   totalIssues |-> u.openIssues + u.closedIssues]

\* getUserStats rejects: Promise.all settles with the first rejection
StatsReject(error) ==
  /\ spc' = "rejected"
  /\ joinErr' = IF joinErr = None /\ pc = "await_all" THEN Some(error) ELSE joinErr

\* getUserStats resolves
StatsFulfil(value, log) ==
  /\ spc' = "fulfilled"
  /\ statsResult' = Some(value)
  /\ est' = [est EXCEPT !.phase = "done", !.log = log]

-----------------------------------------------------------------------------
(* GET of graphql.ts and of part_001: REST profile || getUserStats          *)

Respond(r) == /\ response' = r /\ pc' = "done"

\* the 200 body
Summary(sv, langs) ==
  [status |-> 200,
   body |-> [totalCommits |-> sv.totalCommits, totalStars |-> sv.totalStars,
             totalPRs |-> sv.totalPRs, totalIssues |-> sv.totalIssues,
             topLanguages |-> langs,
             commitCalculationMethod |-> sv.commitMethod,
             authenticated |-> IF Modular(variant) THEN None ELSE Some(isAuth),
             dataScope |-> IF ~Modular(variant) /\ isAuth
                           THEN "public-and-private" ELSE "public-only"]]

\* token check, exclude_repo parsing, then Promise.all([fetch(users/x), getUserStats(..)])
GetStart ==
  /\ variant \in {"monolith", "timeline", "comprehensive"}
  /\ pc = "start"
  /\ IF ~HasToken
     THEN /\ Respond(Translate(variant, PlainError("No GitHub token available")))
          /\ UNCHANGED <<rest, spc, snap>>
     ELSE /\ pc' = "await_all"
          /\ rest' = "inflight"
          /\ spc' = "fetch"
          /\ snap' = [snap EXCEPT !.issued = 1, !.filtered = ~StatsIsAuthenticated]
          /\ UNCHANGED response
  /\ UNCHANGED <<inputVars, rateRemaining, restStatus, attempt, joinErr, userData, totalStars, est,
                 statsResult, lpc, topLanguages, retry, ownRemaining, batch, username, session, authRoute, analysis>>

\* the REST profile fetch settles: 2xx, non-2xx, or a transport failure
RestSettle ==
  /\ variant \in {"monolith", "timeline", "comprehensive"}
  /\ rest = "inflight"
  /\ \E outcome \in {200, 404, 403, 0} :
       /\ rest' = (IF outcome = 0 THEN "rejected"
                   ELSE IF outcome = 200 THEN "ok" ELSE "non2xx")
       /\ restStatus' = outcome
       /\ joinErr' = IF outcome = 0 /\ joinErr = None /\ pc = "await_all"
                     THEN Some(FetchFailed) ELSE joinErr
  /\ UNCHANGED <<inputVars, rateRemaining, pc, spc, attempt, userData, totalStars, est, statsResult,
                 lpc, topLanguages, response, snap, retry, ownRemaining, batch, username, session, authRoute, analysis>>

\* the first await of the estimator, entered in the same turn as the star sum
EstStart(v, u) ==
  CASE v = "timeline" ->
         EstRun("timeline", <<Started("contribution-timeline")>>)
    [] v = "monolith" ->
         [EstRun("repo-history", <<Started("repository-history")>>)
            EXCEPT !.repos = [i \in 1..Len(Eligible(u.nodes)) |-> PendingRepo]]
    [] v = "comprehensive" ->
         EstRun("user-id", <<Started("comprehensive")>>)
    [] OTHER -> EstRun("search", <<Started("search-api")>>)

\* a test that lets a small positive count fall through
AcceptsAboveTwo(count) == count > 2

\* `if (result.count > 0)`: the test that accepts a strategy's count
Accepts(count) == count > 0

\* the checks getUserStats runs on the resolved snapshot response
SnapshotError(kind, message, statusText) ==
  CASE kind = "not_found" ->
         CustomApiError(IF message = "" THEN "Could not fetch user." ELSE message,
                        USER_NOT_FOUND)
    [] kind = "errors" /\ message # "" ->
         CustomApiError(FirstWrappedLine(message), statusText)
    [] kind = "errors" /\ message = "" ->
         CustomApiError("Something went wrong while trying to retrieve the stats data using the GraphQL API.",
                        GRAPHQL_ERROR)
    [] OTHER -> CustomApiError("User data not found", USER_NOT_FOUND)

\* a gateway that also throws on a response that carries errors
GatewayThrowsOnErrors(outcome) == outcome \in {"transport", "errors"}

\* makeGraphQLRequest throws only when fetch or response.json() rejects
\* ("transport"); every response with a JSON body is returned as
\* {data, status, statusText}, whatever its status and whatever it carries
GatewayThrows(outcome) == outcome = "transport"

\* the catch of retryApiCall: the last attempt's error is thrown, any other
\* failure is followed by the backoff delay and another attempt
RetryOrGiveUp ==
  IF attempt = MaxRetries(variant) - 1
  THEN StatsReject(FetchFailed) /\ UNCHANGED attempt
  ELSE attempt' = attempt + 1 /\ UNCHANGED <<spc, joinErr>>

\* one turn of retryApiCall around the snapshot query, and what getUserStats
\* does with a resolved response up to the estimator's first await
SnapshotAttempt ==
  /\ variant \in {"monolith", "timeline", "comprehensive", "search"}
  /\ spc = "fetch"
  /\ \/ \* the fetch rejects, or the body is not JSON
        /\ GatewayThrows("transport")
        /\ RetryOrGiveUp
        /\ UNCHANGED <<userData, totalStars, est, snap>>
     \/ \* a response without a usable data.user
        /\ \E kind \in {"not_found", "errors", "no_user"}, m \in GraphQLMessages,
              st \in {"OK", "Forbidden"} :
             IF GatewayThrows(kind)
             THEN /\ RetryOrGiveUp
                  /\ snap' = [snap EXCEPT !.kind = kind, !.message = m, !.statusText = st]
             ELSE /\ StatsReject(SnapshotError(kind, m, st))
                  /\ snap' = [snap EXCEPT !.kind = kind, !.message = m, !.statusText = st,
                                          !.thrown = Some(SnapshotError(kind, m, st))]
                  /\ UNCHANGED attempt
        /\ UNCHANGED <<userData, totalStars, est>>
     \/ \* the snapshot
        /\ \E u \in Users(currentYear) :
             /\ userData' = Some(u)
             /\ totalStars' = Some(TotalStars(u.nodes, StatsExcludeRepos))
             /\ est' = EstStart(variant, u)
        /\ snap' = [snap EXCEPT !.kind = "user", !.statusText = "OK"]
        /\ spc' = "estimate"
        /\ UNCHANGED <<attempt, joinErr>>
  /\ UNCHANGED <<inputVars, rateRemaining, pc, rest, restStatus, statsResult, lpc, topLanguages,
                 response, retry, ownRemaining, batch, username, session, authRoute, analysis>>

\* Promise.all has settled: the catch block, the REST status check, or on to
\* the second snapshot fetch
Join ==
  /\ variant \in {"monolith", "timeline", "comprehensive"}
  /\ pc = "await_all"
  /\ \/ /\ joinErr # None
        /\ Respond(Translate(variant, joinErr[1]))
     \/ /\ joinErr = None /\ spc = "fulfilled" /\ rest = "non2xx"
        /\ Respond(Translate(variant,
             PlainError("User not found: " \o ToString(restStatus))))
     \/ /\ joinErr = None /\ spc = "fulfilled" /\ rest = "ok"
        /\ pc' = "languages"
        /\ UNCHANGED response
  /\ UNCHANGED <<inputVars, rateRemaining, rest, restStatus, spc, attempt, joinErr, userData,
                 totalStars, est, statsResult, lpc, topLanguages, snap, retry, ownRemaining, batch, username, session, authRoute, analysis>>

\* getCompleteUserData a second time (no retry), getUserTopLanguages, the 200
LanguagesFetch ==
  /\ variant \in {"monolith", "timeline", "comprehensive"}
  /\ pc = "languages"
  /\ \/ /\ Respond(Translate(variant, FetchFailed))
        /\ snap' = [snap EXCEPT !.issued = @ + 1]
        /\ UNCHANGED topLanguages
     \/ /\ Respond(Translate(variant, PlainError("Failed to fetch complete user data")))
        /\ snap' = [snap EXCEPT !.issued = @ + 1]
        /\ UNCHANGED topLanguages
     \/ \E nodes \in SnapshotNodes :
          LET langs == getUserTopLanguages(nodes, ParseExclude(excludeParam))
          IN /\ topLanguages' = Some(langs)
             /\ snap' = [snap EXCEPT !.issued = @ + 1, !.langNodes = Some(nodes)]
             /\ Respond(Summary(statsResult[1], langs))
  /\ UNCHANGED <<inputVars, rateRemaining, rest, restStatus, spc, attempt, joinErr, userData,
                 totalStars, est, statsResult, lpc, retry, ownRemaining, batch, username, session, authRoute, analysis>>

-----------------------------------------------------------------------------
(* commit-counter.ts getAccurateCommitCount: the contribution timeline     *)

\* yearsRange: currentYear down to createdYear
YearsRange(u) == u.createdYear..currentYear

\* the loop over yearsRange: a year counts when its totalCommitContributions is truthy
HistoricalCommits(years, answer) ==
  SumOver(years, [y \in years |-> IF Truthy(answer[y]) THEN answer[y][1] ELSE 0])

\* 1 + totalReposCount + totalPRs + totalIssues
EstimatedInitialCommits(u) ==
  1 + u.reposTotalCount + u.pullRequests + (u.openIssues + u.closedIssues)

TimelineMethod(auth, nYears, initial) ==
  "contribution-timeline-" \o ScopeWord(auth) \o "-" \o ToString(nYears)
    \o "years+" \o ToString(initial) \o "initial"

\* the single aliased query of all years settles
TimelineSettle ==
  /\ variant = "timeline"
  /\ spc = "estimate"
  /\ est.phase = "timeline"
  /\ LET u == userData[1] IN
     \/ \* transport failure: logged and thrown again
        /\ StatsReject(FetchFailed)
        /\ est' = [est EXCEPT !.phase = "done",
                              !.log = Append(@, Failed("contribution-timeline"))]
        /\ UNCHANGED statsResult
     \/ \* no data.user in the answer
        /\ StatsReject(PlainError("No user data returned from GitHub API"))
        /\ est' = [est EXCEPT !.phase = "done",
                              !.log = Append(@, Failed("contribution-timeline"))]
        /\ UNCHANGED statsResult
     \/ \E answer \in [YearsRange(u) -> OptVals(hostile)] :
          LET initial == EstimatedInitialCommits(u)
              count == HistoricalCommits(YearsRange(u), answer) + initial
          IN /\ spc' = "fulfilled"
             /\ statsResult' =
                  Some(StatsValue(count,
                                  TimelineMethod(StatsIsAuthenticated,
                                                 Cardinality(YearsRange(u)), initial),
                                  u, totalStars[1]))
             /\ est' = [est EXCEPT
                          !.phase = "done", !.years = answer,
                          !.log = Append(@, Finished("contribution-timeline", count))]
             /\ UNCHANGED joinErr
  /\ UNCHANGED <<inputVars, rateRemaining, pc, rest, restStatus, attempt, userData,
                 totalStars, lpc, topLanguages, response, snap, retry, ownRemaining, batch, username, session, authRoute, analysis>>

-----------------------------------------------------------------------------
(* graphql.ts getAllTimeCommitCount: repository history, then the 10-year  *)
(* contribution timeline, then the estimate                                *)

TimelineYears == 10

EstimatedHistoricalMultiplier == 3

\* answers of the 10-year query: year offset -> totalCommitContributions.
\* The newest and the oldest year vary, the years between are absent.
DecadeAnswers(h) ==
  { [i \in 0..(TimelineYears - 1) |->
       IF i = 0 THEN a ELSE IF i = TimelineYears - 1 THEN b ELSE None] :
      a \in OptVals(h), b \in OptVals(h) }

RepoHistoryMethod(auth, ok, n) ==
  "repository-history-" \o ScopeWord(auth) \o "-" \o ToString(ok) \o "of"
    \o ToString(n) \o "repos"

DecadeMethod(auth, initial) ==
  "contribution-timeline-" \o ScopeWord(auth) \o "-" \o ToString(TimelineYears)
    \o "years+" \o ToString(initial) \o "initial"

FallbackMethod(auth, yearCommits, initial) ==
  "estimated-fallback-" \o ScopeWord(auth) \o "-" \o ToString(yearCommits) \o "*"
    \o ToString(EstimatedHistoricalMultiplier) \o "+" \o ToString(initial)
    \o "initial"

\* one repository's promise settles: the user-id query and the history query;
\* a response without totalCount ("no-data": GraphQL errors, no default
\* branch) and a totalCount of 0 ("empty") return 0 and touch neither counter
RepoHistorySettle ==
  /\ variant = "monolith"
  /\ spc = "estimate"
  /\ est.phase = "repo-history"
  /\ \E i \in 1..Len(est.repos) :
       /\ est.repos[i].st = "pending"
       /\ \/ \* a request rejects or the user id is missing: caught, counts 0
             est' = [est EXCEPT !.repos[i] = [st |-> "failed", v |-> 0],
                                !.bad = @ + 1, !.order = Append(@, i)]
          \/ \E c \in OptVals(hostile) :
               est' = IF Truthy(c)
                      THEN [est EXCEPT !.repos[i] = [st |-> "counted", v |-> c[1] + 1],
                                       !.ok = @ + 1, !.order = Append(@, i)]
                      ELSE [est EXCEPT !.repos[i] =
                              [st |-> IF c = None THEN "no-data" ELSE "empty", v |-> 0],
                                       !.order = Append(@, i)]
  /\ UNCHANGED <<inputVars, rateRemaining, pc, rest, restStatus, spc, attempt, joinErr, userData,
                 totalStars, statsResult, lpc, topLanguages, response, snap, retry, ownRemaining, batch, username, session, authRoute, analysis>>

\* accepted whatever the repositories answered
RepoHistoryAcceptedAlways(successfulRepos) == successfulRepos >= 0

\* if (successfulRepos > 0) return {count, method}
RepoHistoryAccepted(successfulRepos) == successfulRepos > 0

RepoCounts(run) == [i \in 1..Len(run.repos) |-> run.repos[i].v]

\* Promise.all(commitPromises) resolves: accept when a repository answered
RepoHistoryJoin ==
  /\ variant = "monolith"
  /\ spc = "estimate"
  /\ est.phase = "repo-history"
  /\ \A i \in 1..Len(est.repos) : est.repos[i].st # "pending"
  /\ LET count == SumSeq(RepoCounts(est))
         log == Append(est.log, Finished("repository-history", count))
     IN IF RepoHistoryAccepted(est.ok)
        THEN /\ StatsFulfil(
                  StatsValue(count,
                             RepoHistoryMethod(StatsIsAuthenticated, est.ok,
                                               Len(est.repos)),
                     userData[1], totalStars[1]),
                  log)
        ELSE /\ est' = [est EXCEPT !.phase = "decade",
                          !.log = Append(log, Started("contribution-timeline"))]
             /\ UNCHANGED <<spc, statsResult>>
  /\ UNCHANGED <<inputVars, rateRemaining, pc, rest, restStatus, attempt, joinErr, userData,
                 totalStars, lpc, topLanguages, response, snap, retry, ownRemaining, batch, username, session, authRoute, analysis>>

\* the sum of the truthy years of the 10-year answer
DecadeCommits(answer) ==
  SumOver(DOMAIN answer,
          [i \in DOMAIN answer |-> IF Truthy(answer[i]) THEN answer[i][1] ELSE 0])

\* the 10-year query settles: accepted whenever data.user is there; a
\* rejection or a missing user falls through to the estimate
DecadeSettle ==
  /\ variant = "monolith"
  /\ spc = "estimate"
  /\ est.phase = "decade"
  /\ LET u == userData[1]
         initial == Len(est.repos)
     IN \/ LET count == u.yearCommits * EstimatedHistoricalMultiplier + initial
           IN StatsFulfil(
                StatsValue(count,
                           FallbackMethod(StatsIsAuthenticated, u.yearCommits, initial),
                     u, totalStars[1]),
                est.log \o <<Failed("contribution-timeline"),
                             Started("estimated-fallback"),
                             Finished("estimated-fallback", count)>>)
        \/ \E answer \in DecadeAnswers(hostile) :
             LET count == DecadeCommits(answer) + initial
             IN StatsFulfil(
                  StatsValue(count, DecadeMethod(StatsIsAuthenticated, initial),
                     u, totalStars[1]),
                  Append(est.log, Finished("contribution-timeline", count)))
  /\ UNCHANGED <<inputVars, rateRemaining, pc, rest, restStatus, attempt, joinErr, userData,
                 totalStars, lpc, topLanguages, response, snap, retry, ownRemaining, batch, username, session, authRoute, analysis>>

-----------------------------------------------------------------------------
(* part_009 getAccurateCommitCount: the comprehensive analysis in batches, *)
(* with getFallbackAccurateCount behind it                                 *)

BatchSize == 5

MaxRepositories == 500

\* a manager that keeps a margin of 200 whatever is asked for
canProceedFlatMargin(remaining, requestsNeeded) == remaining >= 200

\* RateLimitManager.canProceed
canProceed(remaining, requestsNeeded) ==
  remaining >= Max(requestsNeeded * 10 + 200, 300)

\* filterRepositories with includeForks and includeArchived off; the snapshot
\* query does not select isEmpty and isDisabled
filterRepositories(nodes) == SelectSeq(nodes, LAMBDA repo : ~repo.isFork /\ ~repo.isArchived)

\* rateLimit.remaining of a response: absent, plenty, or nearly used up
RateLimitAnswers == {None, Some(4000), Some(250)}

\* repo{index} of a batch response: absent, or what processRepositoryCommits
\* adds to the breakdown and to branchesAnalyzed
RepoAnswers(h) ==
  {None} \cup {Some([commits |-> c, branches |-> 1]) : c \in CountVals(h)}

ComprehensiveMethod(auth, processed, branches) ==
  "comprehensive-multi-branch-" \o ScopeWord(auth) \o "-" \o ToString(processed)
    \o "repos-" \o ToString(branches) \o "branches"

FallbackContributionsMethod(auth) == "fallback-contributions-" \o ScopeWord(auth)

\* getFallbackAccurateCount: directCommits + repositoryCreationCommits, the
\* latter from a field the snapshot query does not select
FallbackContributions(u) == OrZero(Some(u.yearCommits)) + OrZero(None)

\* getUserId settles: null (rejected, or no id) sends the run to the fallback
UserIdSettle ==
  /\ variant = "comprehensive"
  /\ spc = "estimate"
  /\ est.phase = "user-id"
  /\ \/ \* no id: "Cannot get user ID", caught, getFallbackAccurateCount
        /\ \E rl \in RateLimitAnswers :
             /\ rateRemaining' = IF rl = None THEN rateRemaining ELSE rl[1]
             /\ ownRemaining' = IF rl = None THEN ownRemaining ELSE rl[1]
        /\ LET u == userData[1]
               count == FallbackContributions(u)
           IN StatsFulfil(
                StatsValue(count, FallbackContributionsMethod(StatsIsAuthenticated),
                     u, totalStars[1]),
                est.log \o <<Failed("comprehensive"),
                             Started("fallback-contributions"),
                             Finished("fallback-contributions", count)>>)
     \/ /\ \E rl \in RateLimitAnswers :
             /\ rateRemaining' = IF rl = None THEN rateRemaining ELSE rl[1]
             /\ ownRemaining' = IF rl = None THEN ownRemaining ELSE rl[1]
        /\ est' = [est EXCEPT
                     !.phase = "batches",
                     !.repos = [i \in 1..Min(Len(filterRepositories(userData[1].nodes)),
                                             MaxRepositories) |-> PendingRepo]]
        /\ UNCHANGED <<spc, statsResult>>
  /\ UNCHANGED <<inputVars, pc, rest, restStatus, attempt, joinErr, userData,
                 totalStars, lpc, topLanguages, response, snap, retry, batch, username, session, authRoute, analysis>>

\* indices of the batch that starts after est.idx repositories
BatchOf(run) == (run.idx + 1)..Min(run.idx + BatchSize, Len(run.repos))

\* one turn of the loop of processRepositoriesComprehensively: processBatch
BatchSettle ==
  /\ variant = "comprehensive"
  /\ spc = "estimate"
  /\ est.phase = "batches"
  /\ est.idx < Len(est.repos)
  /\ canProceed(rateRemaining, BatchSize * 2)
  /\ \/ \* the batch request rejects, or answers without data: caught
        /\ est' = [est EXCEPT !.idx = @ + BatchSize, !.bad = @ + 1]
        /\ UNCHANGED <<rateRemaining, ownRemaining>>
     \/ \E rl \in RateLimitAnswers, answer \in [BatchOf(est) -> RepoAnswers(hostile)] :
          /\ rateRemaining' = IF rl = None THEN rateRemaining ELSE rl[1]
          /\ ownRemaining' = IF rl = None THEN ownRemaining ELSE rl[1]
          /\ est' = [est EXCEPT
               !.idx = @ + BatchSize,
               !.repos = [i \in DOMAIN @ |->
                            IF i \in BatchOf(est) /\ answer[i] # None
                            THEN [st |-> "counted", v |-> answer[i][1].commits]
                            ELSE @[i]],
               !.ok = @ + Cardinality({i \in BatchOf(est) : answer[i] # None}),
               !.sum = @ + SumOver({i \in BatchOf(est) : answer[i] # None},
                                   [i \in BatchOf(est) |->
                                      IF answer[i] = None THEN 0
                                      ELSE answer[i][1].branches])]
  /\ UNCHANGED <<inputVars, pc, rest, restStatus, spc, attempt, joinErr, userData,
                 totalStars, statsResult, lpc, topLanguages, response, snap, retry, batch, username, session, authRoute, analysis>>

\* rateLimitManager is one object per server process: between two awaits of
\* this request another request's getUserId or processBatch receives a
\* response and calls rateLimitManager.updateLimits with its rateLimit
OtherRequestUpdate ==
  /\ variant = "comprehensive"
  /\ \/ spc = "estimate" /\ est.phase \in {"user-id", "batches"}
     \/ pc = "batch" /\ batch.phase \in {"loop", "await"}
  /\ \E rl \in RateLimitAnswers \ {None} :
       /\ rl[1] # rateRemaining
       /\ rateRemaining' = rl[1]
  /\ UNCHANGED <<inputVars, pc, rest, restStatus, spc, attempt, joinErr, userData,
                 totalStars, est, statsResult, lpc, topLanguages, response, snap, retry,
                 ownRemaining, batch, username, session, authRoute, analysis>>

\* the loop ends (all batches done, or the rate limit stops it): the sum of
\* the breakdown is returned under the comprehensive tag
ComprehensiveFinish ==
  /\ variant = "comprehensive"
  /\ spc = "estimate"
  /\ est.phase = "batches"
  /\ est.idx >= Len(est.repos) \/ ~canProceed(rateRemaining, BatchSize * 2)
  /\ LET count == SumSeq(RepoCounts(est))
     IN StatsFulfil(
          StatsValue(count,
                     ComprehensiveMethod(StatsIsAuthenticated, est.ok, est.sum),
                     userData[1], totalStars[1]),
          Append(est.log, Finished("comprehensive", count)))
  /\ UNCHANGED <<inputVars, rateRemaining, pc, rest, restStatus, attempt, joinErr, userData,
                 totalStars, lpc, topLanguages, response, snap, retry, ownRemaining, batch, username, session, authRoute, analysis>>

-----------------------------------------------------------------------------
(* route.ts: REST profile first, then getUserStats || getUserTopLanguages  *)

SearchGetStart ==
  /\ variant = "search"
  /\ pc = "start"
  /\ IF ~HasToken
     THEN /\ Respond(Translate(variant, PlainError("No GitHub token available")))
          /\ UNCHANGED rest
     ELSE /\ pc' = "await_rest"
          /\ rest' = "inflight"
          /\ UNCHANGED response
  /\ UNCHANGED <<inputVars, rateRemaining, restStatus, spc, attempt, joinErr, userData,
                 totalStars, est, statsResult, lpc, topLanguages, snap, retry, ownRemaining, batch, username, session, authRoute, analysis>>

\* the REST profile fetch settles; only a 2xx lets the two GraphQL branches start
SearchRestSettle ==
  /\ variant = "search"
  /\ pc = "await_rest"
  /\ \E outcome \in {200, 404, 403, 0} :
       /\ restStatus' = outcome
       /\ IF outcome = 200
          THEN /\ rest' = "ok"
               /\ pc' = "await_all"
               /\ spc' = "fetch"
               /\ lpc' = [st |-> "fetch", attempt |-> 0]
               /\ snap' = [snap EXCEPT !.issued = 2, !.filtered = ~isAuth]
               /\ UNCHANGED response
          ELSE /\ rest' = (IF outcome = 0 THEN "rejected" ELSE "non2xx")
               /\ Respond(Translate(variant,
                    IF outcome = 0 THEN FetchFailed
                    ELSE PlainError("User not found: " \o ToString(outcome))))
               /\ UNCHANGED <<spc, lpc, snap>>
  /\ UNCHANGED <<inputVars, rateRemaining, attempt, joinErr, userData, totalStars, est,
                 statsResult, topLanguages, retry, ownRemaining, batch, username, session, authRoute, analysis>>

\* answers of the languages query without a usable data.user:
\* <<kind, errors[0].message, statusText>>
LanguageFailures ==
  { <<"not_found", "", "OK">>, <<"errors", "", "OK">>,
    <<"errors", "API rate limit exceeded for user ID 1.", "Forbidden">>,
    <<"no_user", "", "OK">> }

LanguagesReject(error) ==
  /\ lpc' = [lpc EXCEPT !.st = "rejected"]
  /\ joinErr' = IF joinErr = None THEN Some(error) ELSE joinErr

\* one turn of retryApiCall around the languages query, then the aggregation
LanguagesAttempt ==
  /\ variant = "search"
  /\ lpc.st = "fetch"
  /\ \/ /\ IF lpc.attempt = MaxRetries(variant) - 1
           THEN LanguagesReject(FetchFailed)
           ELSE lpc' = [lpc EXCEPT !.attempt = @ + 1] /\ UNCHANGED joinErr
        /\ UNCHANGED <<topLanguages, snap>>
     \/ /\ \E f \in LanguageFailures :
             LanguagesReject(
               IF f[1] = "errors" /\ f[2] = ""
               THEN CustomApiError("Something went wrong while trying to retrieve the language data using the GraphQL API.",
                                   GRAPHQL_ERROR)
               ELSE SnapshotError(f[1], f[2], f[3]))
        /\ UNCHANGED <<topLanguages, snap>>
     \/ /\ \E nodes \in SnapshotNodes :
             /\ topLanguages' = Some(getUserTopLanguages(nodes, ParseExclude(excludeParam)))
             /\ snap' = [snap EXCEPT !.langNodes = Some(nodes)]
        /\ lpc' = [lpc EXCEPT !.st = "fulfilled"]
        /\ UNCHANGED joinErr
  /\ UNCHANGED <<inputVars, rateRemaining, pc, rest, restStatus, spc, attempt, userData,
                 totalStars, est, statsResult, response, retry, ownRemaining, batch, username, session, authRoute, analysis>>

\* Promise.all([getUserStats, getUserTopLanguages]) settles
SearchJoin ==
  /\ variant = "search"
  /\ pc = "await_all"
  /\ \/ /\ joinErr # None
        /\ Respond(Translate(variant, joinErr[1]))
     \/ /\ joinErr = None /\ spc = "fulfilled" /\ lpc.st = "fulfilled"
        /\ Respond(Summary(statsResult[1], topLanguages[1]))
  /\ UNCHANGED <<inputVars, rateRemaining, rest, restStatus, spc, attempt, joinErr,
                 userData, totalStars, est, statsResult, lpc, topLanguages, snap, retry, ownRemaining, batch, username, session, authRoute, analysis>>

-----------------------------------------------------------------------------
(* route.ts getTotalCommitsCount: search API, GraphQL year by year,        *)
(* repository statistics; getUserStats keeps the snapshot's count otherwise *)

\* the search queries, in the order they are sent
SearchQueries(login) ==
  <<"author:" \o login, "committer:" \o login,
    "author:" \o login \o " OR committer:" \o login>>

\* `search-api-${query.includes('OR') ? 'combined' : query.includes('committer') ? 'committer' : 'author'}`
SearchMethod(query) ==
  IF Includes(query, "OR") THEN "search-api-combined"
  ELSE IF Includes(query, "committer") THEN "search-api-committer"
  ELSE "search-api-author"

\* setTimeout(resolve, 200) after a search query that was answered
SearchDelay == 200

YearsBack == 10

\* getCommitsViaSearchAPI: one query of the loop settles
SearchQuerySettle ==
  /\ variant = "search"
  /\ spc = "estimate"
  /\ est.phase = "search"
  /\ est.idx < Len(SearchQueries(username))
  /\ \/ \* the fetch rejects, or the response is not OK
        est' = [est EXCEPT !.idx = @ + 1]
     \/ \E c \in OptVals(hostile) :
          LET count == OrZero(c)
          IN est' = IF count > est.sum
                    THEN [est EXCEPT !.idx = @ + 1, !.sum = count,
                                     !.best = SearchMethod(SearchQueries(username)[est.idx + 1])]
                    ELSE [est EXCEPT !.idx = @ + 1]
  /\ UNCHANGED <<inputVars, rateRemaining, pc, rest, restStatus, spc, attempt, joinErr,
                 userData, totalStars, statsResult, lpc, topLanguages, response, snap, retry, ownRemaining, batch, username, session, authRoute, analysis>>

\* getCommitsViaSearchAPI returns {maxCount, bestMethod}
SearchApiFinish ==
  /\ variant = "search"
  /\ spc = "estimate"
  /\ est.phase = "search"
  /\ est.idx = Len(SearchQueries(username))
  /\ LET log == Append(est.log, Finished("search-api", est.sum))
     IN IF Accepts(est.sum)
        THEN StatsFulfil(StatsValue(est.sum, est.best, userData[1], totalStars[1]), log)
        ELSE /\ est' = [est EXCEPT !.phase = "multi-year", !.idx = 0, !.sum = 0,
                          !.log = Append(log, Started("graphql-multi-year"))]
             /\ UNCHANGED <<spc, statsResult>>
  /\ UNCHANGED <<inputVars, rateRemaining, pc, rest, restStatus, attempt, joinErr,
                 userData, totalStars, lpc, topLanguages, response, snap, retry, ownRemaining, batch, username, session, authRoute, analysis>>

\* restrictedContributionsCount of a year
RestrictedVals == {None, Some(2)}

\* the answer to the query of one year: None when the request rejects or
\* carries no contributionsCollection
YearAnswers(h) ==
  {None} \cup {Some([commits |-> c, restricted |-> r]) :
                 c \in YearVals(h), r \in RestrictedVals}

\* the answers of the loop over startYear..currentYear, by year offset: the
\* first and the last year vary, the years between carry no collection
MultiYearAnswers(h) ==
  { [i \in 0..YearsBack |-> IF i = 0 THEN a ELSE IF i = YearsBack THEN b ELSE None] :
      a \in YearAnswers(h), b \in YearAnswers(h) }

\* totalCommits of getCommitsViaGraphQL after the loop
MultiYearTotal(answer, auth) ==
  SumOver(DOMAIN answer,
          [i \in DOMAIN answer |->
             IF answer[i] = None THEN 0
             ELSE OrZero(answer[i][1].commits)
                  + (IF auth THEN OrZero(answer[i][1].restricted) ELSE 0)])

MultiYearMethod(auth) ==
  "graphql-multi-year-" \o (IF auth THEN "with-private" ELSE "public-only")

\* getCommitsViaGraphQL runs its loop and returns
MultiYearSettle ==
  /\ variant = "search"
  /\ spc = "estimate"
  /\ est.phase = "multi-year"
  /\ \E answer \in MultiYearAnswers(hostile) :
       LET count == MultiYearTotal(answer, isAuth)
           log == Append(est.log, Finished("graphql-multi-year", count))
       IN IF Accepts(count)
          THEN StatsFulfil(StatsValue(count, MultiYearMethod(isAuth), userData[1],
                                      totalStars[1]), log)
          ELSE /\ est' = [est EXCEPT !.phase = "repositories", !.idx = 0, !.sum = 0,
                            !.log = Append(log, Started("repository-stats"))]
               /\ UNCHANGED <<spc, statsResult>>
  /\ UNCHANGED <<inputVars, rateRemaining, pc, rest, restStatus, attempt, joinErr,
                 userData, totalStars, lpc, topLanguages, response, snap, retry, ownRemaining, batch, username, session, authRoute, analysis>>

\* the tag of the year-by-year strategy on the repository strategy's count
RepositoryStatsMislabelled(auth) == MultiYearMethod(auth)

RepositoryStatsMethod(auth) ==
  "repository-stats-" \o (IF auth THEN "all-repos" ELSE "public-only")

\* what the stats/contributors calls of the listed repositories add up to:
\* each repository answers a total, or 0 when its call fails
ContributorTotals(h) ==
  UNION { [1..n -> CountVals(h)] : n \in 0..MaxRepos }

\* totalCommits and commitMethod as getUserStats starts with them
SnapshotCount(u) == u.yearCommits

\* getCommitsViaRepositories settles, getTotalCommitsCount returns, and
\* getUserStats takes the result only when it is accepted
RepositoryStatsSettle ==
  /\ variant = "search"
  /\ spc = "estimate"
  /\ est.phase = "repositories"
  /\ LET u == userData[1]
         Keep(log) ==
           StatsFulfil(StatsValue(SnapshotCount(u), "graphql-contributions", u,
                                  totalStars[1]),
                       log \o <<Started("graphql-contributions"),
                                Finished("graphql-contributions", SnapshotCount(u))>>)
     IN \/ \* the repository list cannot be fetched: {0, 'all-methods-failed'}
           Keep(Append(est.log, Failed("repository-stats")))
        \/ \E totals \in ContributorTotals(hostile) :
             LET count == SumSeq(totals)
                 log == Append(est.log, Finished("repository-stats", count))
             IN IF Accepts(count)
                THEN StatsFulfil(StatsValue(count, RepositoryStatsMethod(isAuth), u,
                                            totalStars[1]), log)
                ELSE Keep(log)
  /\ UNCHANGED <<inputVars, rateRemaining, pc, rest, restStatus, attempt, joinErr,
                 userData, totalStars, lpc, topLanguages, response, snap, retry, ownRemaining, batch, username, session, authRoute, analysis>>

-----------------------------------------------------------------------------
(* part_000 GET: everything over REST, with the commit cascade inline      *)

\* languageMap of part_000: the languages of the repositories whose
\* languages_url answered, in fetch order; no exclusion
RestTopLanguages(nodes) ==
  LET ranked == Take(SortDesc(Accumulate(AllEdges(nodes), <<>>), LAMBDA l : l.size),
                     TopLanguageCount)
  IN [i \in 1..Len(ranked) |-> "#" \o ranked[i].name]

\* totalRepos: the listed repositories for the own profile, public_repos otherwise
TotalRepos(u) == IF isAuth THEN Len(u.nodes) ELSE OrZero(Some(u.reposTotalCount))

RestGetStart ==
  /\ variant = "rest"
  /\ pc = "start"
  /\ pc' = "await_profile"
  /\ rest' = "inflight"
  /\ UNCHANGED <<inputVars, rateRemaining, restStatus, spc, attempt, joinErr, userData,
                 totalStars, est, statsResult, lpc, topLanguages, response, snap, retry, ownRemaining, batch, username, session, authRoute, analysis>>

\* Promise.all([fetch(users/x), fetch(repos)]) settles
RestProfileSettle ==
  /\ variant = "rest"
  /\ pc = "await_profile"
  /\ \E outcome \in {200, 404, 403, 0} :
       /\ restStatus' = outcome
       /\ IF outcome = 200
          THEN /\ rest' = "ok"
               /\ \E u \in Users(currentYear), listed \in BOOLEAN :
                    \* a repos answer that is not an array leaves userRepos = []
                    LET user == IF listed THEN u ELSE [u EXCEPT !.nodes = <<>>]
                    IN /\ userData' = Some(user)
                       /\ totalStars' = Some(TotalStars(user.nodes, <<>>))
               /\ pc' = "await_counts"
               /\ UNCHANGED response
          ELSE /\ rest' = (IF outcome = 0 THEN "rejected" ELSE "non2xx")
               /\ Respond(Translate(variant,
                    IF outcome = 0 THEN FetchFailed
                    ELSE PlainError("User not found: " \o ToString(outcome))))
               /\ UNCHANGED <<userData, totalStars>>
  /\ UNCHANGED <<inputVars, rateRemaining, spc, attempt, joinErr, est, statsResult, lpc,
                 topLanguages, snap, retry, ownRemaining, batch, username, session, authRoute, analysis>>

\* the languages, pull-request and issue fetches settle; the cascade starts
\* with the GraphQL strategy when there is a token, with the repositories
\* strategy otherwise
RestCountsSettle ==
  /\ variant = "rest"
  /\ pc = "await_counts"
  /\ \/ /\ Respond(Translate(variant, FetchFailed))
        /\ UNCHANGED <<topLanguages, statsResult, est>>
     \/ \E langsOk \in BOOLEAN, countsOk \in BOOLEAN :
          LET u == userData[1]
              counted == IF countsOk THEN u
                         ELSE [u EXCEPT !.pullRequests = 0, !.openIssues = 0,
                                        !.closedIssues = 0]
          IN /\ topLanguages' = Some(RestTopLanguages(IF langsOk THEN u.nodes ELSE <<>>))
             /\ statsResult' = Some(StatsValue(0, "estimated", counted, totalStars[1]))
             /\ est' = IF HasToken
                       THEN EstRun("rest-graphql", <<Started("graphql-comprehensive")>>)
                       ELSE EstRun("rest-repos", <<Started("repository-based")>>)
             /\ pc' = "commits"
             /\ UNCHANGED response
  /\ UNCHANGED <<inputVars, rateRemaining, rest, restStatus, spc, attempt, joinErr,
                 userData, totalStars, lpc, snap, retry, ownRemaining, batch, username, session, authRoute, analysis>>

\* getCommitsViaGraphQL of part_000: the query of one year settles
RestYearSettle ==
  /\ variant = "rest"
  /\ pc = "commits"
  /\ est.phase = "rest-graphql"
  /\ est.idx < Cardinality(YearsRange(userData[1]))
  /\ \/ est' = [est EXCEPT !.idx = @ + 1]
     \/ \E a \in YearAnswers(hostile) \ {None} :
          est' = [est EXCEPT !.idx = @ + 1, !.ok = @ + 1,
                             !.sum = @ + OrZero(a[1].commits) + OrZero(a[1].restricted)]
  /\ UNCHANGED <<inputVars, rateRemaining, pc, rest, restStatus, spc, attempt, joinErr,
                 userData, totalStars, statsResult, lpc, topLanguages, response, snap, retry, ownRemaining, batch, username, session, authRoute, analysis>>

AccountAgeYears(u) == Max(1, currentYear - u.createdYear)

FallbackConstant == 12

\* the estimate without Math.max(1, totalRepos)
FallbackEstimateOfListed(u) == TotalRepos(u) * AccountAgeYears(u) * FallbackConstant

\* Math.round(repoActivity * accountAgeYears * 12)
FallbackEstimate(u) == Max(1, TotalRepos(u)) * AccountAgeYears(u) * FallbackConstant

\* the 200 of part_000
RestSummary(sv, langs) ==
  [status |-> 200,
   body |-> [totalCommits |-> sv.totalCommits, totalStars |-> sv.totalStars,
             totalPRs |-> sv.totalPRs, totalIssues |-> sv.totalIssues,
             topLanguages |-> langs,
             commitCalculationMethod |-> sv.commitMethod,
             authenticated |-> Some(isAuth), dataScope |-> ""]]

\* `if (totalCommits === 0)`: the fallback estimate, then the response
RestFinish(sv, log) ==
  LET u == userData[1]
      final == IF sv.totalCommits = 0
               THEN [sv EXCEPT !.totalCommits = FallbackEstimate(u),
                               !.commitMethod = "fallback-estimate"]
               ELSE sv
  IN /\ statsResult' = Some(final)
     /\ est' = [est EXCEPT !.phase = "done",
                  !.log = IF sv.totalCommits = 0
                          THEN log \o <<Started("fallback-estimate"),
                                        Finished("fallback-estimate", FallbackEstimate(u))>>
                          ELSE log]
     /\ Respond(RestSummary(final, topLanguages[1]))

\* getCommitsViaGraphQL returns; accepted, or on to the repositories strategy
RestGraphQLFinish ==
  /\ variant = "rest"
  /\ pc = "commits"
  /\ est.phase = "rest-graphql"
  /\ est.idx = Cardinality(YearsRange(userData[1]))
  /\ LET method == IF est.ok > 0 THEN "graphql-comprehensive" ELSE "graphql-failed"
         log == Append(est.log, Finished("graphql-comprehensive", est.sum))
     IN IF Accepts(est.sum)
        THEN RestFinish([statsResult[1] EXCEPT !.totalCommits = est.sum,
                                                !.commitMethod = method], log)
        ELSE /\ est' = [est EXCEPT !.phase = "rest-repos", !.idx = 0, !.sum = 0,
                          !.log = Append(log, Started("repository-based"))]
             /\ UNCHANGED <<pc, statsResult, response>>
  /\ UNCHANGED <<inputVars, rateRemaining, rest, restStatus, spc, attempt, joinErr,
                 userData, totalStars, lpc, topLanguages, snap, retry, ownRemaining, batch, username, session, authRoute, analysis>>

\* getCommitsViaRepositories returns its total (0 when it fails)
RestRepositoriesSettle ==
  /\ variant = "rest"
  /\ pc = "commits"
  /\ est.phase = "rest-repos"
  /\ \E totals \in [1..Len(Eligible(userData[1].nodes)) -> CountVals(hostile)] :
       LET count == SumSeq(totals)
           sv == [statsResult[1] EXCEPT
                    !.totalCommits = count,
                    !.commitMethod = IF count > 0 THEN "repository-based" ELSE @]
       IN RestFinish(sv, Append(est.log, Finished("repository-based", count)))
  /\ UNCHANGED <<inputVars, rateRemaining, rest, restStatus, spc, attempt, joinErr,
                 userData, totalStars, lpc, topLanguages, snap, retry, ownRemaining, batch, username, session, authRoute, analysis>>

-----------------------------------------------------------------------------
(* The request pipeline                                                    *)

Next ==
  \/ GetStart
  \/ RestSettle
  \/ SnapshotAttempt
  \/ Join
  \/ LanguagesFetch
  \/ TimelineSettle
  \/ RepoHistorySettle
  \/ RepoHistoryJoin
  \/ DecadeSettle
  \/ UserIdSettle
  \/ BatchSettle
  \/ OtherRequestUpdate
  \/ ComprehensiveFinish
  \/ SearchGetStart
  \/ SearchRestSettle
  \/ LanguagesAttempt
  \/ SearchJoin
  \/ SearchQuerySettle
  \/ SearchApiFinish
  \/ MultiYearSettle
  \/ RepositoryStatsSettle
  \/ RestGetStart
  \/ RestProfileSettle
  \/ RestCountsSettle
  \/ RestYearSettle
  \/ RestGraphQLFinish
  \/ RestRepositoriesSettle

Spec == Init /\ [][Next]_vars

SpecAdversarial == InitAdversarial /\ [][Next]_vars

-----------------------------------------------------------------------------
(* The repository loop of each strategy on its own, one query at a time    *)

\* the longest repository list walked
MaxListed == 11

\* const batchSize = 10 (route.ts getCommitsViaRepositories)
BatchSizeRoute == 10

\* const batchSize = 3 (part_000 getCommitsViaRepositories)
BatchSizeRest == 3

\* setTimeout(resolve, 500) between the batches of route.ts
BatchDelayRoute == 500

\* setTimeout(resolve, 300) between the batches of part_000
BatchDelayRest == 300

\* setTimeout(resolve, 200) after every batch of part_009
BatchDelayComprehensive == 200

\* repositories a loop turn dispatches at once: graphql.ts maps over the whole
\* list, the other strategies take a slice of batchSize
DispatchSize(v, n) ==
  CASE v = "monolith" -> n
    [] v = "search" -> BatchSizeRoute
    [] v = "rest" -> BatchSizeRest
    [] OTHER -> BatchSize

\* the delay awaited after the batch that started at index i
DelayAfter(v, i, n) ==
  CASE v = "search" -> IF i + BatchSizeRoute < n THEN <<BatchDelayRoute>> ELSE <<>>
    [] v = "rest" -> IF i + BatchSizeRest < n THEN <<BatchDelayRest>> ELSE <<>>
    [] v = "comprehensive" -> <<BatchDelayComprehensive>>
    [] OTHER -> <<>>

InitBatch ==
  /\ variant \in {"monolith", "comprehensive", "search", "rest"}
  /\ hostile = FALSE
  /\ currentYear = 2025
  /\ isAuth = FALSE
  /\ envToken = TRUE
  /\ excludeParam = None
  /\ pc = "batch"
  /\ rest = "idle"
  /\ restStatus = 0
  /\ spc = "idle"
  /\ attempt = 0
  /\ joinErr = None
  /\ userData = None
  /\ totalStars = None
  /\ est = IdleEstimator
  /\ statsResult = None
  /\ lpc = IdleBranch
  /\ topLanguages = None
  /\ rateRemaining = RateLimitInitial
  /\ response = NoResponse
  /\ analysis = IdleAnalysis
  /\ authRoute = IdleAuthRoute
  /\ session = IdleSession
  /\ username = "octocat"
  /\ snap = InitialSnap
  /\ retry = IdleRetry
  /\ ownRemaining = RateLimitInitial
  /\ \E n \in 0..MaxListed : batch = [IdleBatch EXCEPT !.phase = "loop", !.n = n]

\* the loop condition and the dispatch of one turn: repositories.map(...) over
\* the whole list (graphql.ts), or over repos.slice(i, i + batchSize)
BatchDispatch ==
  /\ pc = "batch"
  /\ batch.phase = "loop"
  /\ IF variant # "monolith" /\ batch.i >= batch.n
     THEN batch' = [batch EXCEPT !.phase = "done"]
     ELSE IF variant = "comprehensive" /\ ~canProceed(rateRemaining, BatchSize * 2)
     THEN \* stats.rateLimitHits++; break
          batch' = [batch EXCEPT !.phase = "done", !.hits = @ + 1,
                                 !.checks = Append(@, rateRemaining)]
     ELSE batch' = [batch EXCEPT
            !.phase = "await",
            !.dispatched = @ + 1,
            !.checks = IF variant = "comprehensive" THEN Append(@, rateRemaining) ELSE @,
            !.inFlight = (batch.i + 1)..Min(batch.i + DispatchSize(variant, batch.n),
                                            batch.n)]
  /\ UNCHANGED <<inputVars, rateRemaining, pc, rest, restStatus, spc, attempt, joinErr,
                 userData, totalStars, est, statsResult, lpc, topLanguages, response, snap,
                 retry, ownRemaining, username, session, authRoute, analysis>>

\* a query in flight settles (its failure is caught and counts 0); part_009
\* sends the whole batch as one query, so its repositories settle together:
\* the rateLimit of the answer, if any, is recorded, and repositoriesProcessed
\* grows by the repositories the answer has data for (none when it failed)
QuerySettle ==
  /\ pc = "batch"
  /\ batch.phase = "await"
  /\ \E r \in batch.inFlight :
       IF variant = "comprehensive"
       THEN \E rl \in RateLimitAnswers, withData \in 0..Cardinality(batch.inFlight) :
              /\ rateRemaining' = IF rl = None THEN rateRemaining ELSE rl[1]
              /\ batch' = [batch EXCEPT !.inFlight = {}, !.settled = @ \cup batch.inFlight,
                                        !.processed = @ + withData]
       ELSE /\ batch' = [batch EXCEPT !.inFlight = @ \ {r}, !.settled = @ \cup {r}]
            /\ UNCHANGED rateRemaining
  /\ UNCHANGED <<inputVars, pc, rest, restStatus, spc, attempt, joinErr,
                 userData, totalStars, est, statsResult, lpc, topLanguages, response, snap,
                 retry, ownRemaining, username, session, authRoute, analysis>>

\* Promise.all of the turn resolves; the delay, if any, is awaited and the
\* loop index advances (graphql.ts has no loop: the strategy goes on)
BatchJoin ==
  /\ pc = "batch"
  /\ batch.phase = "await"
  /\ batch.inFlight = {}
  /\ batch' = [batch EXCEPT
       !.phase = IF variant = "monolith" THEN "done" ELSE "loop",
       !.i = @ + DispatchSize(variant, batch.n),
       !.delays = @ \o DelayAfter(variant, batch.i, batch.n)]
  /\ UNCHANGED <<inputVars, rateRemaining, pc, rest, restStatus, spc, attempt, joinErr,
                 userData, totalStars, est, statsResult, lpc, topLanguages, response, snap,
                 retry, ownRemaining, username, session, authRoute, analysis>>

NextBatch == BatchDispatch \/ QuerySettle \/ BatchJoin \/ OtherRequestUpdate

SpecBatch == InitBatch /\ [][NextBatch]_vars

-----------------------------------------------------------------------------
(* getCommitsViaSearchAPI of route.ts on its own, one query at a time, with *)
(* what each query was answered and how long the loop waited after it      *)

InitSearch ==
  /\ variant = "search"
  /\ hostile = FALSE
  /\ currentYear = 2025
  /\ isAuth = FALSE
  /\ envToken = TRUE
  /\ excludeParam = None
  /\ pc = "search"
  /\ rest = "idle"
  /\ restStatus = 0
  /\ spc = "idle"
  /\ attempt = 0
  /\ joinErr = None
  /\ userData = None
  /\ totalStars = None
  /\ est = EstRun("search", <<Started("search-api")>>)
  /\ statsResult = None
  /\ lpc = IdleBranch
  /\ topLanguages = None
  /\ rateRemaining = RateLimitInitial
  /\ response = NoResponse
  /\ analysis = IdleAnalysis
  /\ authRoute = IdleAuthRoute
  /\ session = IdleSession
  /\ snap = InitialSnap
  /\ retry = IdleRetry
  /\ ownRemaining = RateLimitInitial
  /\ batch = IdleBatch
  /\ username \in Usernames(variant)

\* one turn of `for (const query of queries)`
SearchTurn ==
  /\ pc = "search"
  /\ est.phase = "search"
  /\ est.idx < Len(SearchQueries(username))
  /\ \/ \* the fetch (or response.json()) rejects: caught, `continue`
        est' = [est EXCEPT !.idx = @ + 1,
                           !.repos = Append(@, [st |-> "rejected", v |-> 0, wait |-> 0])]
     \/ \* the response is not OK: skipped, then the delay
        est' = [est EXCEPT !.idx = @ + 1,
                           !.repos = Append(@, [st |-> "non-ok", v |-> 0,
                                                wait |-> SearchDelay])]
     \/ \E c \in OptVals(hostile) :
          LET count == OrZero(c)
              seen == Append(est.repos, [st |-> "ok", v |-> count, wait |-> SearchDelay])
          IN est' = IF count > est.sum
                    THEN [est EXCEPT !.idx = @ + 1, !.sum = count, !.repos = seen,
                                     !.best = SearchMethod(SearchQueries(username)[est.idx + 1])]
                    ELSE [est EXCEPT !.idx = @ + 1, !.repos = seen]
  /\ UNCHANGED <<inputVars, rateRemaining, pc, rest, restStatus, spc, attempt, joinErr,
                 userData, totalStars, statsResult, lpc, topLanguages, response, snap,
                 retry, ownRemaining, batch, username, session, authRoute, analysis>>

\* return { count: maxCount, method: bestMethod }
SearchReturn ==
  /\ pc = "search"
  /\ est.phase = "search"
  /\ est.idx = Len(SearchQueries(username))
  /\ est' = [est EXCEPT !.phase = "done",
                        !.log = Append(@, Finished("search-api", est.sum))]
  /\ statsResult' = Some([totalCommits |-> est.sum,
                          commitMethod |-> IF est.best = "" THEN "search-api" ELSE est.best])
  /\ UNCHANGED <<inputVars, rateRemaining, pc, rest, restStatus, spc, attempt, joinErr,
                 userData, totalStars, lpc, topLanguages, response, snap, retry,
                 ownRemaining, batch, username, session, authRoute, analysis>>

NextSearch == SearchTurn \/ SearchReturn

SpecSearch == InitSearch /\ [][NextSearch]_vars

-----------------------------------------------------------------------------
(* retryApiCall on its own                                                 *)

\* the base of the backoff: 500 ms in graphql.ts and utils, 1000 ms in route.ts
BaseDelayUtils == 500

BaseDelayRoute == 1000

BaseDelay(v) == IF v = "search" THEN BaseDelayRoute ELSE BaseDelayUtils

\* a doubling that starts one step late
RetryDelayLate(v, i) == BaseDelay(v) * 2 ^ Max(i - 1, 0)

\* 500 * Math.pow(2, i)
RetryDelay(v, i) == BaseDelay(v) * 2 ^ i

\* what one invocation of fetcherFunction settles with
RetryResults ==
  {[ok |-> TRUE, v |-> r] : r \in {"response-a", "response-b"}}
    \cup {[ok |-> FALSE, v |-> e] :
            e \in {"fetch failed", "ECONNRESET", "ETIMEDOUT", "socket hang up"}}

\* the largest maxRetries a caller passes
MaxGivenRetries == 3

\* maxRetries of a call: the default of the module, or what the caller passes
GivenRetries(v) == {MaxRetries(v)} \cup (-1 .. MaxGivenRetries)

InitRetry ==
  /\ variant \in {"monolith", "timeline", "search"}
  /\ hostile = FALSE
  /\ currentYear = 2025
  /\ isAuth = FALSE
  /\ envToken = TRUE
  /\ excludeParam = None
  /\ pc = "retry"
  /\ rest = "idle"
  /\ restStatus = 0
  /\ spc = "idle"
  /\ attempt = 0
  /\ joinErr = None
  /\ userData = None
  /\ totalStars = None
  /\ est = IdleEstimator
  /\ statsResult = None
  /\ lpc = IdleBranch
  /\ topLanguages = None
  /\ rateRemaining = RateLimitInitial
  /\ response = NoResponse
  /\ analysis = IdleAnalysis
  /\ authRoute = IdleAuthRoute
  /\ session = IdleSession
  /\ username = "octocat"
  /\ batch = IdleBatch
  /\ ownRemaining = RateLimitInitial
  /\ snap = InitialSnap
  /\ \E m \in GivenRetries(variant) : retry = [IdleRetry EXCEPT !.maxRetries = m]

\* if (i === maxRetries - 1) throw error, with no wait at all
LastTurnNever(i, maxRetries) == FALSE

\* if (i === maxRetries - 1) throw error
LastTurn(i, maxRetries) == i = maxRetries - 1

\* one turn of the for loop: the invocation settles; a success is returned, the
\* failure of the last turn is thrown, any other failure is followed by the delay
RetryTurn ==
  /\ pc = "retry"
  /\ attempt < retry.maxRetries
  /\ \E r \in RetryResults :
       IF r.ok \/ LastTurn(attempt, retry.maxRetries)
       THEN /\ retry' = [retry EXCEPT !.calls = Append(@, r), !.outcome = Some(r)]
            /\ pc' = "done"
            /\ UNCHANGED attempt
       ELSE /\ retry' = [retry EXCEPT !.calls = Append(@, r),
                                      !.delays = Append(@, RetryDelay(variant, attempt))]
            /\ attempt' = attempt + 1
            /\ UNCHANGED pc
  /\ UNCHANGED <<inputVars, rateRemaining, rest, restStatus, spc, joinErr, userData,
                 totalStars, est, statsResult, lpc, topLanguages, response, snap, ownRemaining, batch, username, session, authRoute, analysis>>

\* the loop condition fails: throw new Error('Max retries exceeded')
RetryExhausted ==
  /\ pc = "retry"
  /\ ~(attempt < retry.maxRetries)
  /\ retry' = [retry EXCEPT !.outcome = Some([ok |-> FALSE, v |-> "Max retries exceeded"])]
  /\ pc' = "done"
  /\ UNCHANGED <<inputVars, rateRemaining, rest, restStatus, spc, attempt, joinErr, userData,
                 totalStars, est, statsResult, lpc, topLanguages, response, snap, ownRemaining, batch, username, session, authRoute, analysis>>

NextRetry == RetryTurn \/ RetryExhausted

SpecRetry == InitRetry /\ [][NextRetry]_vars

\* every invocation settles and every timer fires
SpecRetryFair == InitRetry /\ [][NextRetry]_vars /\ WF_vars(NextRetry)

-----------------------------------------------------------------------------
(* The choice of the token: the opening of GET in graphql.ts and route.ts   *)

SessionToken == "gho_session"
DefaultToken == "ghp_default"

\* what a request can carry in the github_user cookie: nothing, text that is
\* not JSON, the JSON null, or an object with or without login and access_token
SessionCookies ==
  {[kind |-> k, login |-> None, access_token |-> None] : k \in {"absent", "garbage", "null"}}
    \cup [kind : {"object"},
          login : {None, Some("octocat"), Some("Octocat"), Some("mallory")},
          access_token : {None, Some(""), Some(SessionToken)}]

\* if (userCookie?.value) authenticatedUserData = JSON.parse(userCookie.value),
\* null when the cookie is missing, when JSON.parse throws, or when it is null
ParseCookie(cookie) ==
  IF cookie.kind = "object"
  THEN Some([login |-> cookie.login, access_token |-> cookie.access_token])
  ELSE None

\* the same, but comparing the logins without regard to case
IsUserAuthenticatedAnyCase(user, name) ==
  /\ user # None
  /\ user[1].login # None
  /\ LET Lower(l) == IF l = "Octocat" THEN "octocat" ELSE l
     IN Lower(user[1].login[1]) = Lower(name)

\* authenticatedUserData?.login === username
IsUserAuthenticated(user, name) == user # None /\ user[1].login = Some(name)

\* JS truthiness of an optional string: undefined and the empty string are falsy
TruthyText(token) == token # None /\ token # Some("")

\* isUserAuthenticated ? authenticatedUserData?.access_token : process.env.GITHUB_TOKEN
GithubToken(user, authenticated, env) ==
  IF authenticated THEN user[1].access_token
  ELSE IF env THEN Some(DefaultToken) ELSE None

\* token || process.env.GITHUB_TOKEN || '' of retryApiCall
RetryToken(token, env) ==
  IF TruthyText(token) THEN token ELSE IF env THEN Some(DefaultToken) ELSE Some("")

InitAuth ==
  /\ variant \in {"monolith", "search"}
  /\ hostile = FALSE
  /\ currentYear = 2025
  /\ isAuth = FALSE
  /\ envToken \in BOOLEAN
  /\ excludeParam = None
  /\ pc = "cookie"
  /\ rest = "idle"
  /\ restStatus = 0
  /\ spc = "idle"
  /\ attempt = 0
  /\ joinErr = None
  /\ userData = None
  /\ totalStars = None
  /\ est = IdleEstimator
  /\ statsResult = None
  /\ lpc = IdleBranch
  /\ topLanguages = None
  /\ rateRemaining = RateLimitInitial
  /\ response = NoResponse
  /\ analysis = IdleAnalysis
  /\ authRoute = IdleAuthRoute
  /\ username \in {"octocat", "Octocat"}
  /\ batch = IdleBatch
  /\ ownRemaining = RateLimitInitial
  /\ snap = InitialSnap
  /\ retry = IdleRetry
  /\ \E cookie \in SessionCookies : session = [IdleSession EXCEPT !.cookie = cookie]

authVars == <<variant, hostile, currentYear, envToken, excludeParam, rest, restStatus, spc,
              attempt, joinErr, userData, totalStars, est, statsResult, lpc, topLanguages,
              rateRemaining, snap, retry, ownRemaining, batch, username, authRoute, analysis>>

\* cookies().get('github_user') and JSON.parse inside the try
ReadCookie ==
  /\ pc = "cookie"
  /\ session' = [session EXCEPT !.user = ParseCookie(session.cookie)]
  /\ pc' = "token"
  /\ UNCHANGED <<authVars, isAuth, response>>

\* isUserAuthenticated, githubToken, and the throw when there is no token
ChooseToken ==
  /\ pc = "token"
  /\ LET authenticated == IsUserAuthenticated(session.user, username)
         token == GithubToken(session.user, authenticated, envToken)
     IN /\ isAuth' = authenticated
        /\ session' = [session EXCEPT !.githubToken = token]
        /\ IF ~TruthyText(token)
           THEN Respond(Translate(variant, PlainError("No GitHub token available")))
           ELSE pc' = "calls" /\ UNCHANGED response
  /\ UNCHANGED authVars

\* the calls that leave with the token: the REST profile with "token <t>", the
\* snapshot through retryApiCall with "bearer <t>"
OutboundCall ==
  /\ pc = "calls"
  /\ \E call \in {"rest-profile", "snapshot"} :
       /\ \A c \in session.sent : c.call # call
       /\ session' = [session EXCEPT !.sent = @ \cup
                        {[call |-> call,
                          token |-> IF call = "snapshot"
                                    THEN RetryToken(session.githubToken, envToken)
                                    ELSE session.githubToken]}]
  /\ UNCHANGED <<authVars, isAuth, pc, response>>

\* the 200 answer with its _metadata, once both calls are back
AuthRespond ==
  /\ pc = "calls"
  /\ Cardinality(session.sent) = 2
  /\ Respond(Summary([totalCommits |-> 1, commitMethod |-> "", totalStars |-> 0,
                      totalPRs |-> 0, totalIssues |-> 0], <<>>))
  /\ UNCHANGED <<authVars, isAuth, session>>

NextAuth == ReadCookie \/ ChooseToken \/ OutboundCall \/ AuthRespond

SpecAuth == InitAuth /\ [][NextAuth]_vars

-----------------------------------------------------------------------------
(* The auth routes: GET /api/auth/github (errors.ts) and GET /api/auth/session *)

\* the variables of a statistics request up to its answer
pipelineVars == <<variant, hostile, currentYear, isAuth, envToken, excludeParam, rest,
                  restStatus, spc, attempt, joinErr, userData, totalStars, est, statsResult,
                  lpc, topLanguages, rateRemaining, response, snap, retry, ownRemaining,
                  batch, username, session>>

\* no statistics request under way
PipelineIdle ==
  /\ variant = "monolith"
  /\ hostile = FALSE
  /\ currentYear = 2025
  /\ isAuth = FALSE
  /\ envToken = TRUE
  /\ excludeParam = None
  /\ rest = "idle"
  /\ restStatus = 0
  /\ spc = "idle"
  /\ attempt = 0
  /\ joinErr = None
  /\ userData = None
  /\ totalStars = None
  /\ est = IdleEstimator
  /\ statsResult = None
  /\ lpc = IdleBranch
  /\ topLanguages = None
  /\ rateRemaining = RateLimitInitial
  /\ response = NoResponse
  /\ username = "octocat"
  /\ batch = IdleBatch
  /\ ownRemaining = RateLimitInitial
  /\ snap = InitialSnap
  /\ retry = IdleRetry
  /\ session = IdleSession

\* code, error and state of the query string, and the oauth_state and
\* github_user cookies the browser sends along
OAuthRequests ==
  [route : {"callback"}, configured : BOOLEAN,
   query : [code : {None, Some(""), Some("c0de")},
            error : {None, Some(""), Some("access_denied")},
            state : {None, Some(""), Some("s1"), Some("s2")}],
   jar : [oauth_state : {None, Some(""), Some("s1"), Some("s2")},
          github_user : {None, Some("old-session")}],
   calls : {{}},
   out : {[oauth_state |-> "untouched", github_user |-> "untouched"]},
   answer : {None}, now : {0}, settled : {None}]

InitOAuth ==
  /\ PipelineIdle
  /\ analysis = IdleAnalysis
  /\ pc = "oauth"
  /\ authRoute \in OAuthRequests

Redirect(target) == Some([kind |-> "redirect", target |-> target, status |-> 307])

\* the check passes whenever no state was stored
StateVerifiedUnlessStored(storedState, state) == storedState = None \/ storedState = state

\* !( !storedState || storedState !== state )
StateVerified(storedState, state) == TruthyText(storedState) /\ storedState = state

\* the catch block: redirect to ?error=auth_failed, both cookies deleted
OAuthFailed ==
  /\ authRoute' = [authRoute EXCEPT
       !.answer = Redirect("/?error=auth_failed"),
       !.out = [oauth_state |-> "deleted", github_user |-> "deleted"]]
  /\ pc' = "done"

\* GET up to its first await of a fetch: the error parameter, the start of the
\* flow when there is no code, and the verification of the state
OAuthGet ==
  /\ pc = "oauth"
  /\ LET q == authRoute.query
     IN IF TruthyText(q.error)
        THEN /\ authRoute' = [authRoute EXCEPT !.answer = Redirect("/?error=oauth_" \o q.error[1])]
             /\ pc' = "done"
        ELSE IF ~TruthyText(q.code)
        THEN /\ authRoute' =
                  IF ~authRoute.configured
                  THEN [authRoute EXCEPT !.answer =
                          Some([kind |-> "json", target |-> "GitHub OAuth not configured",
                                status |-> 500])]
                  ELSE [authRoute EXCEPT
                          !.answer = Redirect("https://github.com/login/oauth/authorize"),
                          !.out.oauth_state = "set"]
             /\ pc' = "done"
        ELSE IF ~StateVerified(authRoute.jar.oauth_state, q.state)
        THEN /\ authRoute' = [authRoute EXCEPT !.answer = Redirect("/?error=invalid_state")]
             /\ pc' = "done"
        ELSE /\ authRoute' = [authRoute EXCEPT !.calls = @ \cup {"access_token"}]
             /\ pc' = "exchange"
  /\ UNCHANGED <<pipelineVars, analysis>>

\* the token request settles: rejected, not OK, a body that is not JSON, a body
\* with error, a body without access_token, or a token
OAuthTokenSettle ==
  /\ pc = "exchange"
  /\ \E outcome \in {"rejected", "non-ok", "bad-json", "error", "no-token", "token"} :
       IF outcome = "token"
       THEN /\ authRoute' = [authRoute EXCEPT !.calls = @ \cup {"user", "user/emails"}]
            /\ pc' = "profile"
       ELSE OAuthFailed
  /\ UNCHANGED <<pipelineVars, analysis>>

\* the two profile requests settle; the session cookie is set and the state
\* cookie deleted, or the catch block runs
OAuthProfileSettle ==
  /\ pc = "profile"
  /\ \E user \in {"rejected", "non-ok", "bad-json", "null", "ok"},
        emails \in {"rejected", "non-ok", "bad-json", "ok"} :
       IF user = "ok" /\ emails \in {"non-ok", "ok"}
       THEN /\ authRoute' = [authRoute EXCEPT
                 !.answer = Redirect("/?authenticated=true"),
                 !.out = [oauth_state |-> "deleted", github_user |-> "set"]]
            /\ pc' = "done"
       ELSE OAuthFailed
  /\ UNCHANGED <<pipelineVars, analysis>>

NextOAuth == OAuthGet \/ OAuthTokenSettle \/ OAuthProfileSettle

SpecOAuth == InitOAuth /\ [][NextOAuth]_vars

\* GET /api/auth/session (session/route.ts)

\* the ISO texts a session can carry as expires_at, and the day new Date(text)
\* denotes; any other text gives an Invalid Date
DateOf(text) ==
  CASE text = "2025-01-01T00:00:00.000Z" -> Some(1)
    [] text = "2025-01-02T00:00:00.000Z" -> Some(2)
    [] text = "2025-01-03T00:00:00.000Z" -> Some(3)
    [] OTHER -> None

\* the object whose own properties are the given fields that are present
SessionObject(login, access_token, expires_at) ==
  LET Field(f) == CASE f = "login" -> login
                    [] f = "access_token" -> access_token
                    [] f = "expires_at" -> expires_at
  IN [f \in {g \in {"login", "access_token", "expires_at"} : Field(g) # None} |-> Field(f)[1]]

\* the github_user cookie of a request: none, an empty value, text that is not
\* JSON, the JSON null, a JSON number, or a session object
SessionJars ==
  {[kind |-> k, value |-> SessionObject(None, None, None)] :
     k \in {"absent", "empty", "garbage", "null", "number"}}
    \cup {[kind |-> "object", value |-> SessionObject(l, t, e)] :
            l \in {None, Some("octocat")},
            t \in {None, Some(""), Some(SessionToken)},
            e \in {None, Some(""), Some("soon"), Some("2025-01-01T00:00:00.000Z"),
                   Some("2025-01-02T00:00:00.000Z"), Some("2025-01-03T00:00:00.000Z")}}

InitSession ==
  /\ PipelineIdle
  /\ analysis = IdleAnalysis
  /\ pc = "session"
  /\ \E jar \in SessionJars, now \in {2, 3} :
       authRoute = [IdleAuthRoute EXCEPT !.route = "session", !.jar.github_user = jar,
                                         !.now = now]

\* userData.expires_at && new Date(userData.expires_at) < new Date()
TokenExpired(sessionData, now) ==
  /\ "expires_at" \in DOMAIN sessionData
  /\ sessionData.expires_at # ""
  /\ DateOf(sessionData.expires_at) # None
  /\ DateOf(sessionData.expires_at)[1] < now

\* the session as it is, token included
SafeUserDataWhole(sessionData) == sessionData

\* const { access_token, ...safeUserData } = userData
SafeUserData(sessionData) == [f \in DOMAIN sessionData \ {"access_token"} |-> sessionData[f]]

\* a JSON answer without a user, the cookie deleted when an error is reported
SessionRefused(error) ==
  /\ authRoute' = [authRoute EXCEPT
       !.answer = Some([user |-> None, authenticated |-> FALSE, error |-> error]),
       !.out.github_user = IF error = None THEN @ ELSE "deleted"]
  /\ pc' = "done"

\* GET up to the await of the validation request
SessionGet ==
  /\ pc = "session"
  /\ LET jar == authRoute.jar.github_user
     IN IF jar.kind \in {"absent", "empty"}
        THEN SessionRefused(None)
        ELSE IF jar.kind \in {"garbage", "null"}
        THEN SessionRefused(Some("Session error"))
        ELSE IF TokenExpired(jar.value, authRoute.now)
        THEN SessionRefused(Some("Token expired"))
        ELSE /\ authRoute' = [authRoute EXCEPT !.calls = @ \cup {"user"}]
             /\ pc' = "validate"
  /\ UNCHANGED <<pipelineVars, analysis>>

\* the validation request settles: rejected (only warned about), answered
\* non-OK, or answered OK
SessionValidateSettle ==
  /\ pc = "validate"
  /\ \E outcome \in {"rejected", "non-ok", "ok"} :
       IF outcome = "non-ok"
       THEN /\ authRoute' = [authRoute EXCEPT
                 !.settled = Some(outcome),
                 !.answer = Some([user |-> None, authenticated |-> FALSE,
                                  error |-> Some("Invalid token")]),
                 !.out.github_user = "deleted"]
            /\ pc' = "done"
       ELSE /\ authRoute' = [authRoute EXCEPT
                 !.settled = Some(outcome),
                 !.answer = Some([user |-> Some(SafeUserData(authRoute.jar.github_user.value)),
                                  authenticated |-> TRUE, error |-> None])]
            /\ pc' = "done"
  /\ UNCHANGED <<pipelineVars, analysis>>

NextSession == SessionGet \/ SessionValidateSettle

SpecSession == InitSession /\ [][NextSession]_vars

-----------------------------------------------------------------------------
(* part_009 categorizeCommit, called once for every node of a commit history *)

\* the number of commits analyzed in one run
MaxCommits == 3

LowerChar(c) ==
  CASE c = "A" -> "a" [] c = "B" -> "b" [] c = "C" -> "c" [] c = "D" -> "d"
    [] c = "E" -> "e" [] c = "F" -> "f" [] c = "G" -> "g" [] c = "H" -> "h"
    [] c = "I" -> "i" [] c = "J" -> "j" [] c = "K" -> "k" [] c = "L" -> "l"
    [] c = "M" -> "m" [] c = "N" -> "n" [] c = "O" -> "o" [] c = "P" -> "p"
    [] c = "Q" -> "q" [] c = "R" -> "r" [] c = "S" -> "s" [] c = "T" -> "t"
    [] c = "U" -> "u" [] c = "V" -> "v" [] c = "W" -> "w" [] c = "X" -> "x"
    [] c = "Y" -> "y" [] c = "Z" -> "z" [] OTHER -> c

RECURSIVE ToLowerCase(_)
\* String.prototype.toLowerCase
ToLowerCase(s) ==
  IF s = "" THEN "" ELSE LowerChar(SubSeq(s, 1, 1)) \o ToLowerCase(SubSeq(s, 2, Len(s)))

\* the nodes a history can hold: a headline or none, parents.totalCount or no
\* parents, an author name or no author
CommitNodes ==
  [messageHeadline : {None, Some(""), Some("Squash and Revert"), Some("Revert Initial commit"),
                      Some("Initial Commit"), Some("Create README.md"), Some("Update index.ts"),
                      Some("Delete a.txt Co-authored-by: x"), Some("Fix Co-Authored-By x"),
                      Some("Fix typo")},
   parents : {None, Some(0), Some(1), Some(2)},
   author : {None, Some("GitHub"), Some("octocat")}]

\* commit.messageHeadline?.toLowerCase() || ''
CommitMessage(commit) ==
  IF commit.messageHeadline = None THEN "" ELSE ToLowerCase(commit.messageHeadline[1])

\* commit.parents?.totalCount || 1
ParentCount(commit) == IF Truthy(commit.parents) THEN commit.parents[1] ELSE 1

Counted(breakdown, counter) == [breakdown EXCEPT ![counter] = @ + 1]

\* the branches after the one for merge commits, each ending in a return
CategorizeSingleParent(commit, breakdown) ==
  LET message == CommitMessage(commit)
      byGitHub == commit.author = Some("GitHub")
  IN IF \/ Includes(message, "revert")
        \/ Len(message) >= 7 /\ SubSeq(message, 1, 7) = "revert "
     THEN Counted(breakdown, "revertCommits")
     ELSE IF \/ Includes(message, "initial commit")
             \/ Includes(message, "create readme")
             \/ Includes(message, "add readme")
             \/ Includes(message, "first commit")
     THEN Counted(breakdown, "repositoryCreationCommits")
     ELSE IF \/ Includes(message, "update ") /\ byGitHub
             \/ Includes(message, "create ") /\ byGitHub
             \/ Includes(message, "delete ") /\ byGitHub
     THEN Counted(breakdown, "webInterfaceCommits")
     ELSE IF Includes(message, "co-authored-by:") \/ Includes(message, "co-authored-by ")
     THEN Counted(breakdown, "coAuthoredCommits")
     ELSE Counted(breakdown, "directCommits")

\* the branch for merge commits without its return
categorizeCommitFallingThrough(commit, breakdown) ==
  IF ParentCount(commit) > 1
  THEN CategorizeSingleParent(commit,
         Counted(breakdown, IF Includes(CommitMessage(commit), "squash")
                            THEN "squashMergeCommits" ELSE "mergeCommits"))
  ELSE CategorizeSingleParent(commit, breakdown)

categorizeCommit(commit, breakdown) ==
  IF ParentCount(commit) > 1
  THEN Counted(breakdown, IF Includes(CommitMessage(commit), "squash")
                          THEN "squashMergeCommits" ELSE "mergeCommits")
  ELSE CategorizeSingleParent(commit, breakdown)

InitCategorize ==
  /\ PipelineIdle
  /\ authRoute = IdleAuthRoute
  /\ analysis = IdleAnalysis
  /\ pc = "history"

\* one turn of history.nodes.forEach: categorizeCommit(commit, breakdown) and
\* stats.commitsAnalyzed++
CategorizeNode ==
  /\ pc = "history"
  /\ analysis.commitsAnalyzed < MaxCommits
  /\ \E commit \in CommitNodes :
       analysis' = [breakdown |-> categorizeCommit(commit, analysis.breakdown),
                    commitsAnalyzed |-> analysis.commitsAnalyzed + 1,
                    commit |-> Some(commit)]
  /\ UNCHANGED <<pipelineVars, authRoute, pc>>

\* the last node has been visited
HistoryDone ==
  /\ pc = "history"
  /\ pc' = "done"
  /\ UNCHANGED <<pipelineVars, authRoute, analysis>>

NextCategorize == CategorizeNode \/ HistoryDone

SpecCategorize == InitCategorize /\ [][NextCategorize]_vars

-----------------------------------------------------------------------------
(* Reference values the claims are stated against                          *)

\* the exclude set of the request, as a set of names
ExcludeSet == {seg \in NameSet(IF excludeParam = None THEN <<>> ELSE excludeParam[1]) : seg # ""}

\* indices of the repositories of `nodes` that the exclude set `ex` leaves visible
Visible(nodes, ex) == {i \in 1..Len(nodes) : nodes[i].name \notin ex}

\* sum(repo.starCount for repo in repositories if repo.name not in excludeSet)
RefStars(nodes, ex) ==
  SumOver(Visible(nodes, ex), [i \in 1..Len(nodes) |-> nodes[i].stars])

\* bytes of language `l` in one repository
RepoBytes(repo, l) ==
  SumOver({k \in 1..Len(repo.langs) : repo.langs[k].name = l},
          [k \in 1..Len(repo.langs) |-> repo.langs[k].size])

\* bytes of language `l` summed over the visible repositories
RefBytes(nodes, ex, l) ==
  SumOver(Visible(nodes, ex), [i \in 1..Len(nodes) |-> RepoBytes(nodes[i], l)])

\* the language names that occur in a visible repository
RefLanguages(nodes, ex) ==
  UNION {{nodes[i].langs[k].name : k \in 1..Len(nodes[i].langs)} : i \in Visible(nodes, ex)}

\* the language name of a "#Name" entry
EntryName(entry) == SubSeq(entry, 2, Len(entry))

\* the strategies that only stand in when no data-driven strategy was accepted
FallbackStrategies ==
  {"estimated-fallback", "fallback-contributions", "graphql-contributions",
   "fallback-estimate"}

\* the order in which each handler's estimator tries its strategies
StrategyOrder(v) ==
  CASE v = "search" -> <<"search-api", "graphql-multi-year", "repository-stats",
                         "graphql-contributions">>
    [] v = "rest" -> <<"graphql-comprehensive", "repository-based", "fallback-estimate">>
    [] v = "monolith" -> <<"repository-history", "contribution-timeline",
                           "estimated-fallback">>
    [] v = "comprehensive" -> <<"comprehensive", "fallback-contributions">>
    [] OTHER -> <<"contribution-timeline">>

Rank(v, strategy) ==
  CHOOSE i \in 1..Len(StrategyOrder(v)) : StrategyOrder(v)[i] = strategy

StartsWith(s, prefix) ==
  Len(s) >= Len(prefix) /\ SubSeq(s, 1, Len(prefix)) = prefix

\* the strategy a commitCalculationMethod tag names
TagStrategy(tag) ==
  CASE StartsWith(tag, "estimated-fallback") -> "estimated-fallback"
    [] StartsWith(tag, "fallback-estimate") -> "fallback-estimate"
    [] StartsWith(tag, "fallback-contributions") -> "fallback-contributions"
    [] StartsWith(tag, "graphql-contributions") -> "graphql-contributions"
    [] StartsWith(tag, "graphql-multi-year") -> "graphql-multi-year"
    [] StartsWith(tag, "graphql-comprehensive") -> "graphql-comprehensive"
    [] StartsWith(tag, "search-api") -> "search-api"
    [] StartsWith(tag, "repository-stats") -> "repository-stats"
    [] StartsWith(tag, "repository-based") -> "repository-based"
    [] StartsWith(tag, "repository-history") -> "repository-history"
    [] StartsWith(tag, "contribution-timeline") -> "contribution-timeline"
    [] StartsWith(tag, "comprehensive-multi-branch") -> "comprehensive"
    [] OTHER -> "none"

IsFinish(ev) == ev.kind \in {"positive", "nonpositive", "failed"}

Answered200 == pc = "done" /\ response.status = 200

-----------------------------------------------------------------------------
(* Claims                                                                  *)

\* C1: when every commit strategy throws or returns 0 while the REST profile
\* fetch and the snapshot fetch succeed, the request ends with HTTP 200, the
\* fallback tag and a non-negative totalCommits; a commit strategy's failure
\* never reaches the caller as an error response.
C1_StrategyFailureNeverSurfaces ==
  /\ (pc = "done" /\ rest = "ok" /\ userData # None) => spc # "rejected"
  /\ (Answered200 /\ est.phase = "done"
        /\ \A k \in 1..Len(est.log) :
             est.log[k].kind = "positive" => est.log[k].strategy \in FallbackStrategies)
       => /\ TagStrategy(response.body.commitCalculationMethod) \in FallbackStrategies
          /\ response.body.totalCommits >= 0

\* C2: the estimator attempts its strategies one at a time in a fixed order:
\* a strategy is started only after the one attempted before it has finished
\* with a count of zero or a failure, and a count greater than 0 is returned
\* at once, with no later strategy and no fallback attempted.
C2_StrategiesOneAtATimeInOrder ==
  \A k \in 1..Len(est.log) :
    LET ev == est.log[k] IN
    /\ (ev.kind = "start" /\ k > 1) =>
         /\ est.log[k - 1].kind \in {"nonpositive", "failed"}
         /\ Rank(variant, est.log[k - 1].strategy) < Rank(variant, ev.strategy)
    /\ IsFinish(ev) =>
         /\ k > 1
         /\ est.log[k - 1] = Started(ev.strategy)
    /\ ev.kind = "positive" =>
         /\ k = Len(est.log)
         /\ est.phase = "done"
         /\ statsResult # None
         /\ statsResult[1].totalCommits = ev.count

\* the search strategy found nothing, the year-by-year strategy started after
\* it and its positive count was returned
C2_Witness ==
  /\ variant = "search"
  /\ Len(est.log) = 4
  /\ est.log[2] = Finished("search-api", 0)
  /\ est.log[3] = Started("graphql-multi-year")
  /\ est.log[4].kind = "positive"
  /\ statsResult # None /\ statsResult[1].totalCommits = est.log[4].count

\* C3: totalCommits of a response is a non-negative integer for every
\* combination of strategy outcomes, sub-queries that answer negative or
\* missing values included.
C3_CountNeverNegative ==
  Answered200 => response.body.totalCommits \in Nat

\* C4: the error translator answers UserNotFound with 404, GraphQLError with
\* 500, any other error whose message contains "rate limit" with 429 and a
\* suggestion to authenticate, every other error with 500 and the raw message;
\* the suggestion is present only on 429 responses.
C4_TranslatorMapping ==
  (pc = "done" /\ joinErr # None /\ userData = None /\ rest = "idle") =>
    LET e == joinErr[1]
        custom == e.cls = "CustomApiError"
        notFound == \/ custom /\ e.code = USER_NOT_FOUND
                    \/ ~custom /\ Includes(e.message, "User not found")
        rateLimit == ~custom /\ ~notFound /\ Includes(e.message, "rate limit")
    IN /\ notFound => response.status = 404
       /\ (custom /\ ~notFound) => response.status = 500
       /\ rateLimit => response.status = 429 /\ response.body.suggestion # None
       /\ (~custom /\ ~notFound /\ ~rateLimit) =>
            response.status = 500 /\ response.body.error = e.message
       /\ response.status # 429 => response.body.suggestion = None

\* C5: whenever the REST profile fetch returns a non-2xx status the response
\* is {error: "User not found"} with HTTP 404, whatever the snapshot fetch and
\* the commit estimator running concurrently with it do.
C5_RestFailureIsUserNotFound ==
  (pc = "done" /\ rest = "non2xx") =>
    /\ response.status = 404
    /\ response.body.error = "User not found"

\* C6: for every snapshot and every exclude set, totalStars is the sum of
\* starCount over the repositories whose name is not in the exclude set, and
\* adding a name that matches no repository to the exclude set changes nothing.
C6_TotalStarsIsVisibleSum ==
  (pc = "aggregate" /\ totalStars # None) =>
    /\ totalStars[1] = RefStars(userData[1].nodes, ExcludeSet)
    /\ TotalStars(userData[1].nodes,
                  Append(ParseExclude(excludeParam), "matches-nothing")) = totalStars[1]

\* a snapshot with a hidden and a visible repository (and an exclude list that
\* also names a repository that does not exist) has had its stars summed
C6_Witness ==
  /\ pc = "aggregate" /\ totalStars # None
  /\ excludeParam = Some(<<"secret-repo", "no-such-repo">>)
  /\ \E i, j \in 1..Len(userData[1].nodes) :
       /\ userData[1].nodes[i].name = "secret-repo"
       /\ userData[1].nodes[j].name = "alpha"
  /\ totalStars[1] < SumSeq([i \in 1..Len(userData[1].nodes) |-> userData[1].nodes[i].stars])

\* C7: topLanguages has at most 5 entries, each "#" + a language name, in
\* non-increasing order of the bytes summed per language over the non-excluded
\* repositories, and no language left out has a strictly larger total than a
\* listed one.
C7_TopLanguagesRanked ==
  (pc = "aggregate" /\ topLanguages # None) =>
    LET top == topLanguages[1]
        nodes == userData[1].nodes
        listed == {EntryName(top[i]) : i \in 1..Len(top)}
    IN /\ Len(top) <= 5
       /\ \A i \in 1..Len(top) :
            /\ SubSeq(top[i], 1, 1) = "#"
            /\ EntryName(top[i]) \in RefLanguages(nodes, ExcludeSet)
       /\ \A i, j \in 1..Len(top) :
            i < j => RefBytes(nodes, ExcludeSet, EntryName(top[i]))
                       >= RefBytes(nodes, ExcludeSet, EntryName(top[j]))
       /\ \A l \in RefLanguages(nodes, ExcludeSet) \ listed : \A m \in listed :
            RefBytes(nodes, ExcludeSet, l) <= RefBytes(nodes, ExcludeSet, m)

\* six languages compete for the five places, one repository is hidden
C7_Witness ==
  /\ pc = "aggregate" /\ topLanguages # None
  /\ Cardinality(RefLanguages(userData[1].nodes, ExcludeSet)) > 5
  /\ Len(topLanguages[1]) = 5

\* C8: for a request whose exclude_repo names a repository, neither that
\* repository's stars appear in totalStars nor its language bytes in the
\* totals that rank topLanguages.
C8_ExclusionCoversStarsAndLanguages ==
  (Answered200 /\ variant \in {"monolith", "timeline", "comprehensive"}
     /\ "secret-repo" \in ExcludeSet) =>
    /\ response.body.totalStars = RefStars(userData[1].nodes, ExcludeSet)
    /\ \A i \in 1..Len(response.body.topLanguages) :
         response.body.topLanguages[i] # "#Rust"

\* C9: when the contribution-timeline strategy obtains user data, its count is
\* the sum of the per-year totalCommitContributions from the account-creation
\* year through the current year plus 1 + repositories + pull requests +
\* issues, and its tag is
\* contribution-timeline-{authenticated|public}-{N}years+{correction}initial,
\* "public" for a request that is not authenticated.
C9_TimelineCountAndTag ==
  (variant = "timeline" /\ spc = "fulfilled") =>
    LET u == userData[1]
        years == u.createdYear..currentYear
        perYear == [y \in years |->
                      IF est.years[y] = None THEN 0 ELSE est.years[y][1]]
        correction == 1 + u.reposTotalCount + u.pullRequests
                        + (u.openIssues + u.closedIssues)
    IN /\ statsResult[1].totalCommits = SumOver(years, perYear) + correction
       /\ statsResult[1].commitMethod =
            "contribution-timeline-" \o (IF isAuth THEN "authenticated" ELSE "public")
              \o "-" \o ToString(Cardinality(years)) \o "years+"
              \o ToString(correction) \o "initial"

\* C10: in every 200 response commitCalculationMethod names the strategy whose
\* computation produced totalCommits: the strategy the tag names is the last
\* one that finished, and it finished with exactly that count.
C10_TagNamesProducer ==
  Answered200 =>
    \E k \in 1..Len(est.log) :
      /\ est.log[k].kind \in {"positive", "nonpositive"}
      /\ est.log[k].strategy = TagStrategy(response.body.commitCalculationMethod)
      /\ est.log[k].count = response.body.totalCommits
      /\ \A j \in (k + 1)..Len(est.log) : ~IsFinish(est.log[j])

\* a 200 whose count comes from the repository statistics after the search
\* and the year-by-year strategies found nothing
C10_Witness ==
  /\ Answered200
  /\ variant = "search"
  /\ StartsWith(response.body.commitCalculationMethod, "repository-stats-")
  /\ \E k \in 1..Len(est.log) : est.log[k] = Finished("graphql-multi-year", 0)
  /\ response.body.totalCommits > 0

\* C11: no count of 0 of a non-fallback strategy is accepted: a data-driven
\* strategy that finishes with a count of zero is always followed by the start
\* of the next strategy, and a run in which every data-driven strategy yields
\* zero ends with the tag of a fallback strategy.
C11_ZeroCountFallsThrough ==
  (est.phase = "done" /\ statsResult # None) =>
    /\ \A k \in 1..Len(est.log) :
         (est.log[k].kind = "nonpositive"
            /\ est.log[k].strategy \notin FallbackStrategies) =>
           /\ k < Len(est.log)
           /\ est.log[k + 1].kind = "start"
    /\ (\A k \in 1..Len(est.log) :
          est.log[k].strategy \notin FallbackStrategies => est.log[k].kind # "positive")
         => TagStrategy(statsResult[1].commitMethod) \in FallbackStrategies

\* `line` is the indent followed by the beginning of `text`
BeginsText(line, text) ==
  /\ Len(line) >= 1
  /\ SubSeq(line, 1, 1) = " "
  /\ StartsWith(text, SubSeq(line, 2, Len(line)))

\* C12: the snapshot fetcher signals UserNotFound when the first error of the
\* response has type NOT_FOUND, GraphQLError carrying the first line (at most
\* 90 characters) of the message when the response carries another error
\* message, UserNotFound when data.user is absent without errors, and hands on
\* the snapshot only otherwise.
C12_SnapshotFetcherSignals ==
  (variant # "rest" /\ snap.kind # "none") =>
    /\ snap.kind = "not_found" =>
         snap.thrown # None /\ snap.thrown[1].code = USER_NOT_FOUND
    /\ (snap.kind = "errors" /\ snap.message # "") =>
         /\ snap.thrown # None
         /\ snap.thrown[1].code = GRAPHQL_ERROR
         /\ Len(snap.thrown[1].message) <= WrapWidth
         /\ BeginsText(snap.thrown[1].message, snap.message)
    /\ snap.kind = "no_user" =>
         snap.thrown # None /\ snap.thrown[1].code = USER_NOT_FOUND
    /\ snap.kind = "user" <=> userData # None
    /\ snap.kind = "user" => snap.thrown = None

\* C13: the snapshot query carries the privacy: PUBLIC filter exactly when the
\* request is not authenticated, and _metadata.dataScope of the response is
\* "public-only" exactly when the snapshot query of that request carried the
\* filter ("public-and-private" otherwise).
C13_PrivacyFilterMatchesScope ==
  /\ snap.issued > 0 => (snap.filtered <=> ~isAuth)
  /\ (Answered200 /\ snap.issued > 0) =>
       response.body.dataScope =
         (IF snap.filtered THEN "public-only" ELSE "public-and-private")

RECURSIVE Pow2(_)
Pow2(n) == IF n = 0 THEN 1 ELSE 2 * Pow2(n - 1)

\* C14: retryApiCall returns the result of the first invocation that succeeds;
\* after a failed attempt number i (from 0) that is not the last one it waits
\* base_delay * 2^i milliseconds before the next invocation; when every attempt
\* fails it throws the error of the last attempt.
C14_RetryBackoff ==
  pc \in {"retry", "done"} /\ retry.calls # <<>> =>
    LET calls == retry.calls
        base == IF variant = "search" THEN 1000 ELSE 500
        limit == retry.maxRetries
    IN /\ Len(calls) <= limit
       /\ \A k \in 1..(Len(calls) - 1) : ~calls[k].ok
       /\ Len(retry.delays) = (IF retry.outcome = None THEN Len(calls) ELSE Len(calls) - 1)
       /\ \A k \in 1..Len(retry.delays) : retry.delays[k] = base * Pow2(k - 1)
       /\ retry.outcome # None =>
            /\ retry.outcome[1] = calls[Len(calls)]
            /\ ~retry.outcome[1].ok => Len(calls) = limit
       /\ retry.outcome = None => ~calls[Len(calls)].ok

\* route.ts: two attempts failed, 1000 and 2000 ms were waited, and the third
\* attempt failed with another error, which is the one thrown
C14_Witness ==
  /\ variant = "search"
  /\ retry.maxRetries = 3
  /\ pc = "done"
  /\ retry.delays = <<1000, 2000>>
  /\ retry.calls[1].v = "fetch failed"
  /\ retry.outcome = Some([ok |-> FALSE, v |-> "ETIMEDOUT"])

\* C15: the exclusion filter is idempotent: filtering the repository list with
\* an exclude set and filtering the result again with the same set gives the
\* same list as filtering once (for the filter of the star total and for the
\* filter of the language ranking, and so for the figures computed from them).
C15_ExclusionFilterIdempotent ==
  (pc = "aggregate" /\ (totalStars # None \/ topLanguages # None)) =>
    LET nodes == userData[1].nodes
        ex == ParseExclude(excludeParam)
    IN /\ FilterHidden(FilterHidden(nodes, ex), ex) = FilterHidden(nodes, ex)
       /\ FilterHiddenMap(FilterHiddenMap(nodes, ex), ex) = FilterHiddenMap(nodes, ex)
       /\ totalStars # None => TotalStars(FilterHidden(nodes, ex), ex) = totalStars[1]
       /\ topLanguages # None =>
            getUserTopLanguages(FilterHiddenMap(nodes, ex), ex) = topLanguages[1]

\* two repositories, the exclude set names one of them, both figures computed
C15_Witness ==
  /\ pc = "aggregate" /\ totalStars # None /\ topLanguages # None
  /\ excludeParam = Some(<<"alpha", "", "beta">>)
  /\ Len(userData[1].nodes) = 2
  /\ userData[1].nodes[1].name = "secret-repo"
  /\ userData[1].nodes[2].name = "beta"
  /\ Len(FilterHidden(userData[1].nodes, ParseExclude(excludeParam))) = 1

\* C16: the deterministic fallback returns
\* round(repositoryCount * accountAgeYears * constant) with a fixed integer
\* constant, a function of those inputs only, never throws, and is used exactly
\* when no data-driven strategy produced a positive count.
C16_DeterministicFallback ==
  (variant \in {"rest", "monolith"} /\ est.phase = "done" /\ statsResult # None) =>
    LET sv == statsResult[1]
        u == userData[1]
        arithmetic ==
          TagStrategy(sv.commitMethod) \in {"fallback-estimate", "estimated-fallback"}
        positive == \E k \in 1..Len(est.log) :
                      /\ est.log[k].kind = "positive"
                      /\ est.log[k].strategy \notin FallbackStrategies
        repositoryCount == IF isAuth THEN Len(u.nodes) ELSE u.reposTotalCount
    IN /\ arithmetic <=> ~positive
       /\ (variant = "rest" /\ arithmetic) =>
            sv.totalCommits = repositoryCount * (currentYear - u.createdYear) * 12

\* C17: in every execution of the request handler the commit estimator issues
\* its first outbound call only after both the REST profile fetch and the
\* GraphQL snapshot fetch have completed.
C17_EstimatorAfterBothFetches ==
  est.phase # "idle" =>
    /\ rest \in {"ok", "non2xx", "rejected"}
    /\ userData # None

\* C18: each request issues the combined snapshot query once (retries after a
\* transport failure apart), and the star total, the commit estimate and
\* topLanguages of one response are computed from that one snapshot, never
\* from two separately fetched copies.
C18_OneSnapshotPerRequest ==
  /\ snap.issued <= 1
  /\ (Answered200 /\ snap.issued > 0) =>
       /\ snap.langNodes = None \/ snap.langNodes = Some(userData[1].nodes)
       /\ response.body.topLanguages =
            getUserTopLanguages(userData[1].nodes, ParseExclude(excludeParam))

\* C19: two concurrent requests share no mutable state: which repositories a
\* request's estimator run processes, and the count and tag it returns, do not
\* depend on the responses another request receives at the same time. The
\* repository loop may stop early only on what this request itself was told
\* about the rate limit.
C19_NoSharedStateAcrossRequests ==
  (variant = "comprehensive" /\ est.phase = "done" /\ statsResult # None
     /\ TagStrategy(statsResult[1].commitMethod) = "comprehensive"
     /\ \E i \in 1..Len(est.repos) : est.repos[i].st = "pending" /\ i > est.idx)
    => ownRemaining < 300

\* C20: in a strategy that iterates over repositories at most one fixed-size
\* batch of per-repository queries is in flight at any time, a batch is
\* dispatched only after the previous batch has completed entirely, and a
\* delay separates every two consecutive batches.
C20_OneBatchAtATime ==
  batch.phase # "idle" =>
    /\ Cardinality(batch.inFlight) <= 10
    /\ \A r \in batch.inFlight : \A q \in 1..batch.n :
         (q < r /\ q \notin batch.inFlight) => q \in batch.settled
    /\ batch.phase = "loop" => batch.settled = 1..Min(batch.i, batch.n)
    /\ Len(batch.delays) >= batch.dispatched - 1

\* C21: in every strategy's summation a sub-query value that is negative or
\* missing contributes 0: a running sum is a non-negative integer at every
\* step and never decreases while its strategy runs, and so is every count a
\* strategy finishes with.
C21_SumsNeverDecrease ==
  [][/\ est'.sum \in Nat
     /\ est'.phase = est.phase => est'.sum >= est.sum
     /\ \A i \in 1..Len(est'.repos) : est'.repos[i].v \in Nat
     /\ \A k \in 1..Len(est'.log) : est'.log[k].count \in Nat]_vars

\* C22: the per-repository strategy considers only non-fork, non-archived
\* repositories; its count is the sum of totalCount + 1 over the successfully
\* queried repositories; a repository whose query fails adds 0, is counted as
\* failed and does not abort the strategy; the tag reports successCount of
\* the number of repositories considered.
C22_PerRepositoryCount ==
  (variant = "monolith" /\ est.phase \notin {"idle", "repo-history"}) =>
    LET considered == {i \in 1..Len(userData[1].nodes) :
                         ~userData[1].nodes[i].isFork /\ ~userData[1].nodes[i].isArchived}
        answered == {i \in 1..Len(est.repos) : est.repos[i].st \in {"counted", "empty"}}
        unanswered == {i \in 1..Len(est.repos) : est.repos[i].st \in {"failed", "no-data"}}
        total == SumOver(answered,
                         [i \in answered |->
                            IF est.repos[i].st = "counted" THEN est.repos[i].v ELSE 1])
        finish == CHOOSE k \in 1..Len(est.log) :
                    est.log[k].strategy = "repository-history" /\ IsFinish(est.log[k])
    IN /\ Len(est.repos) = Cardinality(considered)
       /\ est.ok = Cardinality(answered)
       /\ est.bad = Cardinality(unanswered)
       /\ est.log[finish].count = total
       /\ (statsResult # None
             /\ TagStrategy(statsResult[1].commitMethod) = "repository-history") =>
            /\ statsResult[1].totalCommits = total
            /\ statsResult[1].commitMethod =
                 "repository-history-" \o (IF isAuth THEN "authenticated" ELSE "public")
                   \o "-" \o ToString(Cardinality(answered)) \o "of"
                   \o ToString(Cardinality(considered)) \o "repos"

\* C23: the search strategy queries its variants one after another with a
\* delay between consecutive variant queries and returns the maximum
\* total_count over the variants that answered successfully (0 when none did);
\* a variant that fails or answers non-OK never aborts the remaining variants,
\* and the tag names the variant that produced the maximum.
C23_SearchTakesMaximum ==
  (pc = "search" /\ est.repos # <<>>) =>
    LET seen == est.repos
        answered == {k \in 1..Len(seen) : seen[k].st = "ok"}
        best == IF answered = {} THEN 0
                ELSE LET top == CHOOSE k \in answered : \A j \in answered : seen[j].v <= seen[k].v
                     IN seen[top].v
        first == CHOOSE k \in answered :
                   seen[k].v = best /\ \A j \in answered : seen[j].v = best => k <= j
        names == <<"author", "committer", "combined">>
    IN /\ est.idx = Len(seen)
       /\ \A k \in 1..(Len(seen) - 1) : seen[k].wait > 0
       /\ est.sum = best
       /\ best > 0 => est.best = "search-api-" \o names[first]
       /\ est.phase = "done" =>
            /\ Len(seen) = 3
            /\ statsResult[1].totalCommits = best
            /\ best > 0 => statsResult[1].commitMethod = "search-api-" \o names[first]

\* C24: a GraphQL response that carries errors or a non-2xx status is returned
\* by the gateway as a normal response and is not a failure: the retry wrapper
\* does not retry it, so once a response has arrived the snapshot query is not
\* issued again, and only a transport failure causes another attempt.
C24_ErrorResponseNotRetried ==
  [][/\ snap.kind # "none" => (attempt' = attempt /\ spc' # "fetch")
     /\ attempt' # attempt => (snap'.kind = "none" /\ attempt' = attempt + 1)]_vars

\* the first attempt was answered 403 with errors: no second attempt, and the
\* request has ended with the error
C24_Witness ==
  /\ snap.kind = "errors"
  /\ snap.statusText = "Forbidden"
  /\ attempt = 0
  /\ spc = "rejected"
  /\ pc = "done"

\* where language `l` is first met on a walk over the repositories `keep`,
\* Place(i) being the place of repository i in the walk
FirstMet(nodes, keep, Place(_), l) ==
  LET hits == {<<i, k>> \in keep \X (1..10) :
                 k <= Len(nodes[i].langs) /\ nodes[i].langs[k].name = l}
      first == CHOOSE h \in hits :
                 \A g \in hits : Place(h[1]) * 100 + h[2] <= Place(g[1]) * 100 + g[2]
  IN Place(first[1]) * 100 + first[2]

\* the order of the entries of topLanguages among languages of equal totals,
\* and at the cut after the fifth entry, follows the walk given by Place
TieOrderFollows(nodes, ex, Place(_)) ==
  LET top == topLanguages[1]
      keep == Visible(nodes, ex)
      listed == {EntryName(top[i]) : i \in 1..Len(top)}
  IN /\ \A i, j \in 1..Len(top) :
          (i < j /\ RefBytes(nodes, ex, EntryName(top[i])) = RefBytes(nodes, ex, EntryName(top[j])))
            => FirstMet(nodes, keep, Place, EntryName(top[i]))
                 < FirstMet(nodes, keep, Place, EntryName(top[j]))
     /\ \A l \in RefLanguages(nodes, ex) \ listed : \A m \in listed :
          RefBytes(nodes, ex, l) = RefBytes(nodes, ex, m)
            => FirstMet(nodes, keep, Place, m) < FirstMet(nodes, keep, Place, l)

\* C25: two languages with equal aggregated byte totals appear in
\* topLanguages in the order in which they are first met when walking the
\* snapshot's repositories in snapshot order.
C25_TiesInSnapshotOrder ==
  (pc = "aggregate" /\ topLanguages # None) =>
    TieOrderFollows(userData[1].nodes, ExcludeSet, LAMBDA i : i)

\* C25, amended: two languages with equal aggregated byte totals appear in
\* the order in which they are first met when walking the repositories the
\* language filter keeps in descending order of stars (repositories of
\* equal stars in snapshot order).
C25_TiesInStarOrder ==
  (pc = "aggregate" /\ topLanguages # None) =>
    LET nodes == userData[1].nodes
        ex == ExcludeSet \cup ObjectPrototypeKeys
        ByStars(i) == 1 + Cardinality({j \in Visible(nodes, ex) :
                            \/ nodes[j].stars > nodes[i].stars
                            \/ nodes[j].stars = nodes[i].stars /\ j < i})
    IN TieOrderFollows(nodes, ex, ByStars)

\* the repository with fewer stars comes first in the snapshot; Go (first met
\* in the second repository) and JavaScript (first met in the first) both
\* total 200 bytes, and Go is listed first
C25_Witness ==
  /\ pc = "aggregate" /\ topLanguages # None
  /\ excludeParam = None
  /\ Len(userData[1].nodes) = 2
  /\ userData[1].nodes[1].name = "alpha" /\ userData[1].nodes[1].stars = 1
  /\ userData[1].nodes[2].name = "beta" /\ userData[1].nodes[2].stars = 100
  /\ topLanguages[1] = <<"#Rust", "#TypeScript", "#Go", "#JavaScript", "#Python">>

\* the login the cookie of the request carries, None when it carries none
CookieLogin == IF session.cookie.kind = "object" THEN session.cookie.login ELSE None

\* C26: the session's access token goes out only when the login of the
\* session cookie equals the requested username exactly, every other username
\* is served with the process-wide default token, and _metadata.authenticated
\* is true exactly when the session token was used.
C26_SessionTokenOnlyForOwnLogin ==
  /\ \A c \in session.sent :
       /\ c.token # Some(DefaultToken) => CookieLogin = Some(username)
       /\ CookieLogin # Some(username) => c.token = Some(DefaultToken)
  /\ (pc = "done" /\ response.status = 200) =>
       /\ session.sent # {}
       /\ response.body.authenticated = Some(TRUE)
            <=> \A c \in session.sent : c.token = Some(SessionToken)
       /\ response.body.authenticated = Some(FALSE)
            <=> \A c \in session.sent : c.token = Some(DefaultToken)

\* a signed-in user asks for their own card: both calls carry the session token
C26_Witness ==
  /\ pc = "done" /\ response.status = 200
  /\ session.cookie.login = Some("Octocat") /\ username = "Octocat"
  /\ response.body.authenticated = Some(TRUE)
  /\ session.sent = {[call |-> "rest-profile", token |-> Some(SessionToken)],
                     [call |-> "snapshot", token |-> Some(SessionToken)]}

\* C27: retryApiCall invokes the operation at most maxRetries times in total,
\* never waits after the final failed attempt, always terminates, and with
\* maxRetries <= 0 never invokes the operation and throws "Max retries exceeded".
C27_RetryBounded ==
  /\ [](pc \in {"retry", "done"} =>
          /\ Len(retry.calls) <= (IF retry.maxRetries > 0 THEN retry.maxRetries ELSE 0)
          /\ Len(retry.delays) <= Len(retry.calls)
          /\ pc = "done" =>
               /\ retry.outcome # None
               /\ retry.calls # <<>> => Len(retry.delays) = Len(retry.calls) - 1
               /\ retry.maxRetries <= 0 =>
                    /\ retry.calls = <<>> /\ retry.delays = <<>>
                    /\ retry.outcome = Some([ok |-> FALSE, v |-> "Max retries exceeded"])
               /\ retry.maxRetries > 0 => retry.outcome[1] = retry.calls[Len(retry.calls)])
  /\ <>(pc = "done")

\* maxRetries = 1: the single attempt fails and its error is thrown at once
C27_Witness ==
  /\ pc = "done"
  /\ retry.maxRetries = 1
  /\ Len(retry.calls) = 1 /\ retry.delays = <<>>
  /\ retry.outcome = Some([ok |-> FALSE, v |-> "ECONNRESET"])

\* maxRetries = 0: nothing was invoked
C27_WitnessNone ==
  /\ pc = "done" /\ retry.maxRetries = 0 /\ retry.calls = <<>>
  /\ retry.outcome = Some([ok |-> FALSE, v |-> "Max retries exceeded"])

\* C28: in the per-repository strategy that dispatches all repository queries
\* at once, whatever the order in which the queries complete, every repository
\* is counted at most once (successfulRepos + failedRepos never exceeds the
\* number of repositories considered), the count and the tag depend on the
\* answers alone, and the result is accepted only when successfulRepos > 0.
C28_CompletionOrderIrrelevant ==
  (variant = "monolith" /\ est.phase # "idle") =>
    LET n == Len(est.repos)
        settled == {est.order[k] : k \in 1..Len(est.order)}
        good == {i \in 1..n : est.repos[i].st = "counted"}
        thrown == {i \in 1..n : est.repos[i].st = "failed"}
        sum == SumOver(good, [i \in good |-> est.repos[i].v])
        accepted == /\ statsResult # None
                    /\ TagStrategy(statsResult[1].commitMethod) = "repository-history"
    IN /\ Len(est.order) = Cardinality(settled)
       /\ settled = {i \in 1..n : est.repos[i].st # "pending"}
       /\ est.ok = Cardinality(good) /\ est.bad = Cardinality(thrown)
       /\ est.ok + est.bad <= n
       /\ accepted =>
            /\ est.ok > 0
            /\ settled = 1..n
            /\ statsResult[1].totalCommits = sum
            /\ statsResult[1].commitMethod =
                 "repository-history-" \o (IF isAuth THEN "authenticated" ELSE "public")
                   \o "-" \o ToString(est.ok)
                   \o "of" \o ToString(n) \o "repos"

\* the query of the second repository completed before the one of the first,
\* which threw; the result was accepted with one of two repositories
C28_Witness ==
  /\ variant = "monolith" /\ ~hostile
  /\ est.order = <<2, 1>>
  /\ est.repos[1].st = "failed" /\ est.repos[2].st = "counted"
  /\ statsResult # None
  /\ statsResult[1].commitMethod = "repository-history-public-1of2repos"

\* C29: the comprehensive estimator processes its batches in repository order
\* and stops at the first batch for which the recorded remaining rate limit is
\* below max(10 * (2 * batchSize) + 200, 300): no batch is processed after a
\* stop, rateLimitHits is at most 1, and repositoriesProcessed never exceeds
\* the number of repositories given.
C29_StopsAtFirstLowLimit ==
  (pc = "batch" /\ variant = "comprehensive") =>
    LET threshold == IF 10 * (2 * 5) + 200 > 300 THEN 10 * (2 * 5) + 200 ELSE 300
        passed == {k \in 1..Len(batch.checks) : batch.checks[k] >= threshold}
        reached == batch.settled \cup batch.inFlight
    IN /\ \A k \in 1..Len(batch.checks) :
            batch.checks[k] < threshold => k = Len(batch.checks)
       /\ batch.dispatched = Cardinality(passed)
       /\ batch.hits = Len(batch.checks) - Cardinality(passed)
       /\ batch.hits <= 1
       /\ batch.hits = 1 => batch.phase = "done" /\ batch.inFlight = {}
       /\ \E m \in 0..batch.n : reached = 1..m
       /\ Cardinality(reached) <= 5 * batch.dispatched
       /\ batch.phase = "done" /\ batch.hits = 0 => batch.settled = 1..batch.n
       /\ batch.processed <= Cardinality(batch.settled)
       /\ batch.processed <= batch.n

\* eleven repositories: the first batch leaves 250 on record, the loop stops
\* before the second batch with five repositories processed
C29_Witness ==
  /\ pc = "batch" /\ variant = "comprehensive"
  /\ batch.n = 11 /\ batch.phase = "done"
  /\ batch.checks = <<5000, 250>>
  /\ batch.hits = 1 /\ batch.settled = 1..5 /\ batch.processed = 5

\* C30: in the REST-based handler totalCommits of a 200 response is never 0:
\* whenever every strategy yields 0 the fallback clamps both the repository
\* count and the account age in years to at least 1, so that its estimate is
\* at least 12.
C30_RestCountNeverZero ==
  (variant = "rest" /\ pc = "done" /\ response.status = 200) =>
    LET u == userData[1]
        repositoryCount == IF isAuth THEN Len(u.nodes) ELSE u.reposTotalCount
        age == currentYear - u.createdYear
        AtLeastOne(x) == IF x < 1 THEN 1 ELSE x
        allZero == \A k \in 1..Len(est.log) :
                     est.log[k].strategy \notin FallbackStrategies => est.log[k].count = 0
        estimated == response.body.commitCalculationMethod = "fallback-estimate"
    IN /\ response.body.totalCommits # 0
       /\ allZero => estimated
       /\ estimated =>
            /\ response.body.totalCommits
                 = AtLeastOne(repositoryCount) * AtLeastOne(age) * 12
            /\ response.body.totalCommits >= 12

\* an account created this year with no repository, no strategy with a
\* count above 0: the estimate is 1 * 1 * 12
C30_Witness ==
  /\ variant = "rest" /\ pc = "done" /\ response.status = 200
  /\ userData[1].reposTotalCount = 0 /\ ~isAuth
  /\ userData[1].createdYear = currentYear
  /\ response.body.commitCalculationMethod = "fallback-estimate"
  /\ response.body.totalCommits = 12

\* the snapshot with its repositories permuted and their stars changed
Rearranged(nodes) ==
  { [i \in 1..Len(nodes) |-> [nodes[p[i]] EXCEPT !.stars = st[i]]] :
      p \in Permutations(1..Len(nodes)), st \in [1..Len(nodes) -> StarCounts] }

\* name and byte total of every language of the map
ByteTotals(map) == { <<map[i].name, map[i].size>> : i \in 1..Len(map) }

\* C31: topLanguages and every language's aggregated byte total are unchanged
\* by permuting the snapshot's repositories and by changing their star
\* counts, whenever the language totals are pairwise distinct; the
\* aggregation does not reorder or otherwise modify the snapshot's
\* repository list.
C31_OrderAndStarsIrrelevant ==
  /\ [](pc = "aggregate" /\ topLanguages # None =>
          LET nodes == userData[1].nodes
              ex == ParseExclude(excludeParam)
              map == LanguageMap(nodes, ex)
              distinct == \A i, j \in 1..Len(map) : i # j => map[i].size # map[j].size
          IN distinct =>
               \A other \in Rearranged(nodes) :
                 /\ getUserTopLanguages(other, ex) = topLanguages[1]
                 /\ ByteTotals(LanguageMap(other, ex)) = ByteTotals(map))
  /\ [][userData' = userData]_vars

\* two repositories sharing TypeScript, the one with fewer stars first: the
\* walk by stars starts with Go, the ranking by bytes with TypeScript
C31_Witness ==
  /\ pc = "aggregate" /\ excludeParam = None
  /\ Len(userData[1].nodes) = 2
  /\ userData[1].nodes[1].name = "alpha" /\ userData[1].nodes[1].stars = 1
  /\ userData[1].nodes[2].name = "beta" /\ userData[1].nodes[2].stars = 100
  /\ topLanguages = Some(<<"#TypeScript", "#Go", "#JavaScript", "#CSS">>)

\* C32: in the OAuth callback the code-for-token exchange is performed only
\* when an oauth_state cookie exists and equals the state query parameter; on
\* a missing or mismatching state no token exchange happens and no github_user
\* cookie is set, and on any failure after the check both the oauth_state and
\* the github_user cookie are cleared.
C32_ExchangeOnlyAfterStateCheck ==
  authRoute.route = "callback" =>
    LET stored == authRoute.jar.oauth_state
        matches == stored \notin {None, Some("")} /\ stored = authRoute.query.state
        callback == /\ authRoute.query.code \notin {None, Some("")}
                    /\ authRoute.query.error \in {None, Some("")}
        succeeded == authRoute.answer = Redirect("/?authenticated=true")
    IN /\ authRoute.calls # {} => callback /\ matches
       /\ (callback /\ ~matches) =>
            /\ authRoute.calls = {}
            /\ authRoute.out.github_user # "set"
       /\ authRoute.out.github_user = "set" => succeeded /\ "access_token" \in authRoute.calls
       /\ (pc = "done" /\ authRoute.calls # {} /\ ~succeeded) =>
            authRoute.out = [oauth_state |-> "deleted", github_user |-> "deleted"]

\* the state matched, the token was granted, and the profile request was
\* answered non-OK: both cookies are cleared
C32_Witness ==
  /\ pc = "done"
  /\ authRoute.jar.oauth_state = Some("s1") /\ authRoute.query.state = Some("s1")
  /\ authRoute.calls = {"access_token", "user", "user/emails"}
  /\ authRoute.answer = Redirect("/?error=auth_failed")
  /\ authRoute.out = [oauth_state |-> "deleted", github_user |-> "deleted"]

\* C33: GET /api/auth/session never includes the access_token in any response,
\* and answers authenticated: true only when the github_user cookie is present,
\* parses, is not past its expires_at and the token validation request did not
\* return a non-OK status; in every branch that reports an expired or invalid
\* token or a session error, the github_user cookie is deleted.
C33_SessionAnswer ==
  (authRoute.route = "session" /\ authRoute.answer # None) =>
    LET answer == authRoute.answer[1]
        jar == authRoute.jar.github_user
        past == /\ jar.kind = "object"
                /\ "expires_at" \in DOMAIN jar.value
                /\ \/ jar.value.expires_at = "2025-01-01T00:00:00.000Z"
                   \/ jar.value.expires_at = "2025-01-02T00:00:00.000Z" /\ authRoute.now = 3
    IN /\ answer.user # None =>
            /\ "access_token" \notin DOMAIN answer.user[1]
            /\ \A f \in DOMAIN answer.user[1] : answer.user[1][f] # SessionToken
       /\ answer.authenticated =>
            /\ jar.kind \in {"object", "number"}
            /\ ~past
            /\ authRoute.settled \in {Some("ok"), Some("rejected")}
       /\ answer.error \in {Some("Token expired"), Some("Invalid token"), Some("Session error")}
            => authRoute.out.github_user = "deleted"
       /\ past => answer.error = Some("Token expired")
       /\ authRoute.settled = Some("non-ok") => answer.error = Some("Invalid token")
       /\ jar.kind \in {"garbage", "null"} => answer.error = Some("Session error")

\* a session that carries its token and is not expired, validated OK: the
\* answer is authenticated and holds the login and the expiry only
C33_Witness ==
  /\ pc = "done"
  /\ authRoute.route = "session"
  /\ authRoute.jar.github_user.kind = "object"
  /\ authRoute.jar.github_user.value =
       SessionObject(Some("octocat"), Some(SessionToken), Some("2025-01-03T00:00:00.000Z"))
  /\ authRoute.settled = Some("ok")
  /\ authRoute.answer[1].authenticated
  /\ DOMAIN authRoute.answer[1].user[1] = {"login", "expires_at"}

\* the counter the stated priority gives a commit: merge or squash-merge for
\* more than one parent, then revert, repository creation, web interface,
\* co-authored, and direct as the default
PriorityCounter(commit) ==
  LET headline == IF commit.messageHeadline = None THEN "" ELSE commit.messageHeadline[1]
      Says(words) == \E w \in words : Includes(ToLowerCase(headline), w)
  IN CASE commit.parents = Some(2) /\ Says({"squash"}) -> "squashMergeCommits"
       [] commit.parents = Some(2) /\ ~Says({"squash"}) -> "mergeCommits"
       [] OTHER ->
          CASE Says({"revert"}) -> "revertCommits"
            [] ~Says({"revert"})
               /\ Says({"initial commit", "create readme", "add readme", "first commit"})
                 -> "repositoryCreationCommits"
            [] OTHER ->
               IF commit.author = Some("GitHub") /\ Says({"update ", "create ", "delete "})
               THEN "webInterfaceCommits"
               ELSE IF Says({"co-authored-by:", "co-authored-by "})
               THEN "coAuthoredCommits"
               ELSE "directCommits"

\* C34: every call of categorizeCommit increases exactly one counter of the
\* breakdown by exactly 1 and leaves all other counters unchanged, with the
\* categories tried in a fixed priority (merge or squash-merge for more than one
\* parent, then revert, repository creation, web interface, co-authored, and
\* direct as the default).
C34_ExactlyOneCounter ==
  [][analysis'.commitsAnalyzed # analysis.commitsAnalyzed =>
       LET commit == analysis'.commit[1]
           changed == {c \in CounterNames : analysis'.breakdown[c] # analysis.breakdown[c]}
       IN /\ changed = {PriorityCounter(commit)}
          /\ \A c \in changed : analysis'.breakdown[c] = analysis.breakdown[c] + 1]_vars

\* a squash merge that also says revert, then a GitHub-authored "Create
\* README.md", then a GitHub-authored "Update index.ts": one squash merge, one
\* repository creation, one web interface commit
C34_Witness ==
  /\ analysis.commitsAnalyzed = 3
  /\ analysis.commit = Some([messageHeadline |-> Some("Update index.ts"),
                             parents |-> Some(1), author |-> Some("GitHub")])
  /\ analysis.breakdown = [c \in CounterNames |->
       IF c \in {"squashMergeCommits", "repositoryCreationCommits", "webInterfaceCommits"}
       THEN 1 ELSE 0]

====
